---- MODULE Spec2Model ----
(***************************************************************************)
(* A model of the piece tree of Basaltic/pieceTree: the red-black          *)
(* order-statistic tree of src/src/pieceNodeList.ts and the mutation       *)
(* engine with its change history of src/unnamed/part_002 (PieceTree).     *)
(***************************************************************************)
EXTENDS Integers, Sequences, FiniteSets, TLC

\* ------------------------------------------------------------------ bounds

\* Node ids available to a tree (0 is the shared sentinel).
MaxNodes == 8
\* Number of insertBefore / insertAfter / deleteNode calls of a list run.
MaxListOps == 7
\* Largest piece length drawn for a node of a bare PieceNodeList.
MaxPieceLen == 2
\* Number of public calls made on a PieceTree after its construction.
MaxOps == 3
\* Number of calls of a client that only types and erases plain text.
MaxPlainOps == 5
\* Number of calls of a client that walks the change history.
MaxHistOps == 6
\* Largest document length (in offsets) a call may leave behind.
MaxLen == 4

\* Calls made by the client that edits and formats, without the history.
MaxFormatOps == 4
\* Calls made by the client that hands callbacks to change().
MaxChangeOps == 4
\* Mutations a callback makes before it returns or throws.
MaxCallbackLen == 2
\* Calls made by the client that types where it typed last.
MaxAppendOps == 4
\* Largest value of an entry of a meta handed to mergeMeta.
MaxMetaValue == 2
\* Calls made by the client that reads the document.
MaxReadOps == 3
\* Calls made by the client that reads the lines of the document.
MaxLinesOps == 3
\* Calls made by the client that names ranges and lines out of range.
MaxEdgeOps == 3

\* ------------------------------------------------------------------ nodes

SENTINEL == 0

NodeIds == 1..MaxNodes

AllNodes == 0..MaxNodes

RED == "RED"

BLACK == "BLACK"

\* meta: null, or an object given as its set of <<key, value>> entries
NullMeta == [null |-> TRUE, kv |-> {}]

ObjMeta(kv) == [null |-> FALSE, kv |-> kv]

\* new NodePiece(bufferIndex, start, length, lineFeedCnt, meta)
NodePiece(bufferIndex, start, length, lineFeedCnt, meta) ==
  [bufferIndex |-> bufferIndex, start |-> start, length |-> length,
   lineFeedCnt |-> lineFeedCnt, meta |-> meta]

\* The piece of the sentinel: no content.
SentinelPiece == NodePiece(0, 0, 0, 0, NullMeta)

\* The tree: root and, per node, the links, the colour, the six aggregates
\* and the piece. used is the set of nodes allocated and not detached.
EmptyTree ==
  [root |-> SENTINEL,
   used |-> {},
   full |-> FALSE,
   left |-> [n \in AllNodes |-> SENTINEL],
   right |-> [n \in AllNodes |-> SENTINEL],
   parent |-> [n \in AllNodes |-> SENTINEL],
   color |-> [n \in AllNodes |-> BLACK],
   leftSize |-> [n \in AllNodes |-> 0],
   rightSize |-> [n \in AllNodes |-> 0],
   leftLineFeedCnt |-> [n \in AllNodes |-> 0],
   rightLineFeedCnt |-> [n \in AllNodes |-> 0],
   leftNodeCnt |-> [n \in AllNodes |-> 0],
   rightNodeCnt |-> [n \in AllNodes |-> 0],
   piece |-> [n \in AllNodes |-> SentinelPiece]]

IsNil(n) == n = SENTINEL

IsNotNil(n) == n # SENTINEL

IsRoot(T, n) == T.parent[n] = SENTINEL

IsLeft(T, n) == T.left[T.parent[n]] = n

IsRight(T, n) == T.right[T.parent[n]] = n

IsRed(T, n) == T.color[n] = RED

IsBlack(T, n) == T.color[n] = BLACK

ToBlack(T, n) == [T EXCEPT !.color[n] = BLACK]

ToRed(T, n) == [T EXCEPT !.color[n] = RED]

\* node.size, node.lineFeedCnt: the node's own piece
NodeSize(T, n) == T.piece[n].length

NodeLineFeedCnt(T, n) == T.piece[n].lineFeedCnt

\* what a parent adds up for a child
SubSize(T, n) == T.leftSize[n] + T.rightSize[n] + NodeSize(T, n)

SubLineFeedCnt(T, n) == T.leftLineFeedCnt[n] + T.rightLineFeedCnt[n] + NodeLineFeedCnt(T, n)

SubNodeCnt(T, n) == IF IsNil(n) THEN 0 ELSE T.leftNodeCnt[n] + T.rightNodeCnt[n] + 1

\* node.updateMeta(): recompute the aggregates of n from its two children
UpdateMeta(T, n) ==
  IF IsNil(n) THEN T
  ELSE [T EXCEPT !.leftSize[n] = SubSize(T, T.left[n]),
                 !.rightSize[n] = SubSize(T, T.right[n]),
                 !.leftLineFeedCnt[n] = SubLineFeedCnt(T, T.left[n]),
                 !.rightLineFeedCnt[n] = SubLineFeedCnt(T, T.right[n]),
                 !.leftNodeCnt[n] = SubNodeCnt(T, T.left[n]),
                 !.rightNodeCnt[n] = SubNodeCnt(T, T.right[n])]

\* node.updateMetaUpward(): n and every ancestor up to the root
RECURSIVE UpdateMetaUpward(_, _)
UpdateMetaUpward(T, n) ==
  IF IsNil(n) THEN T ELSE UpdateMetaUpward(UpdateMeta(T, n), T.parent[n])

\* node.lefest(): leftmost node of the subtree of n
RECURSIVE Lefest(_, _)
Lefest(T, n) ==
  IF IsNil(n) \/ IsNil(T.left[n]) THEN n ELSE Lefest(T, T.left[n])

\* node.rightest(): rightmost node of the subtree of n
RECURSIVE Rightest(_, _)
Rightest(T, n) ==
  IF IsNil(n) \/ IsNil(T.right[n]) THEN n ELSE Rightest(T, T.right[n])

RECURSIVE UpWhileRight(_, _)
UpWhileRight(T, n) ==
  LET p == T.parent[n]
  IN IF IsNotNil(p) /\ T.right[p] = n THEN UpWhileRight(T, p) ELSE p

RECURSIVE UpWhileLeft(_, _)
UpWhileLeft(T, n) ==
  LET p == T.parent[n]
  IN IF IsNotNil(p) /\ T.left[p] = n THEN UpWhileLeft(T, p) ELSE p

\* node.successor(): next node in order, the sentinel after the last
Successor(T, n) ==
  IF IsNil(n) THEN SENTINEL
  ELSE IF IsNotNil(T.right[n]) THEN Lefest(T, T.right[n])
  ELSE UpWhileRight(T, n)

\* node.predecessor(): previous node in order, the sentinel before the first
Predecessor(T, n) ==
  IF IsNil(n) THEN SENTINEL
  ELSE IF IsNotNil(T.left[n]) THEN Rightest(T, T.left[n])
  ELSE UpWhileLeft(T, n)

HasFreshNode(T) == T.used # NodeIds

\* The id of the next node object: the smallest id not in use. When every id
\* is in use no node is created, the tree is marked full and the step is not
\* taken (a bound of the model, not of the program).
FreshNode(T) ==
  IF HasFreshNode(T)
  THEN CHOOSE n \in NodeIds \ T.used : \A m \in NodeIds \ T.used : n <= m
  ELSE MaxNodes

\* new PieceNode(piece): a red node without links, not yet in the tree
CreatePieceNode(T, n, piece) ==
  [T EXCEPT !.used = @ \cup {n},
            !.piece[n] = piece,
            !.color[n] = RED,
            !.left[n] = SENTINEL, !.right[n] = SENTINEL, !.parent[n] = SENTINEL,
            !.leftSize[n] = 0, !.rightSize[n] = 0,
            !.leftLineFeedCnt[n] = 0, !.rightLineFeedCnt[n] = 0,
            !.leftNodeCnt[n] = 0, !.rightNodeCnt[n] = 0]

\* ref.before(newNode): left child of ref when that slot is free, else right
\* child of ref's in-order predecessor
Before(T, ref, newNode) ==
  IF IsNil(T.left[ref])
  THEN [T EXCEPT !.left[ref] = newNode, !.parent[newNode] = ref]
  ELSE LET p == Rightest(T, T.left[ref])
       IN [T EXCEPT !.right[p] = newNode, !.parent[newNode] = p]

\* ref.after(newNode): right child of ref when that slot is free, else left
\* child of ref's in-order successor
After(T, ref, newNode) ==
  IF IsNil(T.right[ref])
  THEN [T EXCEPT !.right[ref] = newNode, !.parent[newNode] = ref]
  ELSE LET s == Lefest(T, T.right[ref])
       IN [T EXCEPT !.left[s] = newNode, !.parent[newNode] = s]

\* node.detach(): the removed node keeps its piece and loses its links
Detach(T, z) ==
  [T EXCEPT !.used = @ \ {z},
            !.color[z] = BLACK,
            !.left[z] = SENTINEL, !.right[z] = SENTINEL, !.parent[z] = SENTINEL,
            !.leftSize[z] = 0, !.rightSize[z] = 0,
            !.leftLineFeedCnt[z] = 0, !.rightLineFeedCnt[z] = 0,
            !.leftNodeCnt[z] = 0, !.rightNodeCnt[z] = 0,
            !.piece[z] = SentinelPiece]

\* ------------------------------------------------------- PieceNodeList

\* const v = ...: the value is computed once and named in what follows
Let(v, Rest(_)) == Rest(v)

LeftRotate(T, x) ==
  LET y == T.right[x]
      b == T.left[T.right[x]]
  IN Let(IF IsNotNil(b) THEN [T EXCEPT !.right[x] = b, !.parent[b] = x]
         ELSE [T EXCEPT !.right[x] = b],
     LAMBDA T2 :
     Let([T2 EXCEPT !.parent[y] = T2.parent[x]],
     LAMBDA T3 :
     Let(IF IsRoot(T3, x) THEN [T3 EXCEPT !.root = y]
         ELSE IF IsLeft(T3, x) THEN [T3 EXCEPT !.left[T3.parent[x]] = y]
         ELSE [T3 EXCEPT !.right[T3.parent[x]] = y],
     LAMBDA T4 :
     UpdateMeta(UpdateMeta([T4 EXCEPT !.left[y] = x, !.parent[x] = y], x), y))))

RightRotate(T, y) ==
  LET x == T.left[y]
      b == T.right[T.left[y]]
  IN Let(IF IsNotNil(b) THEN [T EXCEPT !.left[y] = b, !.parent[b] = y]
         ELSE [T EXCEPT !.left[y] = b],
     LAMBDA T2 :
     Let([T2 EXCEPT !.parent[x] = T2.parent[y]],
     LAMBDA T3 :
     Let(IF IsRoot(T3, y) THEN [T3 EXCEPT !.root = x]
         ELSE IF IsLeft(T3, y) THEN [T3 EXCEPT !.left[T3.parent[y]] = x]
         ELSE [T3 EXCEPT !.right[T3.parent[y]] = x],
     LAMBDA T4 :
     UpdateMeta(UpdateMeta([T4 EXCEPT !.right[x] = y, !.parent[y] = x], y), x))))

\* transplant(x, y): y takes the place of x under x's parent
Transplant(T, x, y) ==
  LET T1 == IF IsRoot(T, x) THEN [T EXCEPT !.root = y]
            ELSE IF IsLeft(T, x) THEN [T EXCEPT !.left[T.parent[x]] = y]
            ELSE [T EXCEPT !.right[T.parent[x]] = y]
  IN [T1 EXCEPT !.parent[y] = T1.parent[x]]

RECURSIVE InsertFixupLoop(_, _)
InsertFixupLoop(T, node) ==
  LET p == T.parent[node]
      g == T.parent[p]
  IN IF ~IsRed(T, p) THEN T
     ELSE IF IsLeft(T, p)
     THEN LET uncle == T.right[g]
          IN IF IsRed(T, uncle)
             THEN InsertFixupLoop(ToRed(ToBlack(ToBlack(T, p), uncle), g), g)
             ELSE IF IsRight(T, node)
             THEN InsertFixupLoop(LeftRotate(T, p), p)
             ELSE InsertFixupLoop(RightRotate(ToRed(ToBlack(T, p), g), g), node)
     ELSE LET uncle == T.left[g]
          IN IF IsRed(T, uncle)
             THEN InsertFixupLoop(ToRed(ToBlack(ToBlack(T, p), uncle), g), g)
             ELSE IF IsLeft(T, node)
             THEN InsertFixupLoop(RightRotate(T, p), p)
             ELSE InsertFixupLoop(LeftRotate(ToRed(ToBlack(T, p), g), g), node)

\* insertFixup without its last statement, this.root.toBlack()
InsertFixupRootLeftRed(T, node) == InsertFixupLoop(T, node)

InsertFixup(T, node) ==
  Let(InsertFixupLoop(T, node), LAMBDA T1 : ToBlack(T1, T1.root))

\* insertBefore calling referenceNode.after(newNode) in place of
\* referenceNode.before(newNode)
InsertBeforeAsAfter(T, newNode, referenceNode) ==
  LET T1 == IF referenceNode = SENTINEL THEN [T EXCEPT !.root = newNode]
            ELSE After(T, referenceNode, newNode)
  IN InsertFixup(UpdateMetaUpward(T1, newNode), newNode)

\* insertBefore(newNode, referenceNode); newNode was created by CreatePieceNode
InsertBefore(T, newNode, referenceNode) ==
  LET T1 == IF referenceNode = SENTINEL THEN [T EXCEPT !.root = newNode]
            ELSE Before(T, referenceNode, newNode)
  IN InsertFixup(UpdateMetaUpward(T1, newNode), newNode)

\* insertAfter(newNode, referenceNode)
InsertAfter(T, newNode, referenceNode) ==
  LET T1 == IF referenceNode = SENTINEL THEN [T EXCEPT !.root = newNode]
            ELSE After(T, referenceNode, newNode)
  IN InsertFixup(UpdateMetaUpward(T1, newNode), newNode)

\* PieceNodeList.splitNode(pieceNode, offset), structural = false: the left
\* piece is created with lineFeedCnt 0, and insertBefore is called with
\* pieceNode as the new node and leftNode as the reference
ListSplitNode(T, pieceNode, offset) ==
  LET p == T.piece[pieceNode]
      leftPiece == NodePiece(p.bufferIndex, p.start, offset, 0, p.meta)
      T1 == [T EXCEPT !.piece[pieceNode].start = @ + offset,
                      !.piece[pieceNode].length = @ - offset,
                      !.piece[pieceNode].lineFeedCnt = @ - 0]
      leftNode == FreshNode(T1)
  IN [tree |-> IF HasFreshNode(T1)
               THEN InsertBefore(CreatePieceNode(T1, leftNode, leftPiece),
                                 pieceNode, leftNode)
               ELSE [T1 EXCEPT !.full = TRUE],
      leftNode |-> leftNode, rightNode |-> pieceNode]

\* PieceNodeList.splitNode(pieceNode, offset, structural = true), the list
\* being the children of one STRUCTURAL node. above tells whether the
\* fresh leftNode has that node as its container (leftNode.above is set by
\* the node class). The loop of lines 153-157 never assigns removedNode: once
\* entered it does not end.
ListSplitNodeStructural(T, pieceNode, offset, above) ==
  Let(ListSplitNode(T, pieceNode, offset),
  LAMBDA sp :
  IF ~above
  THEN [tree |-> sp.tree, hung |-> FALSE, sibling |-> FALSE, moved |-> <<>>]
  ELSE IF IsNotNil(Successor(sp.tree, sp.leftNode))
  THEN [tree |-> sp.tree, hung |-> TRUE, sibling |-> TRUE, moved |-> <<>>]
  ELSE [tree |-> sp.tree, hung |-> FALSE, sibling |-> TRUE, moved |-> <<>>])

RECURSIVE DeleteNodeFixupLoop(_, _)
DeleteNodeFixupLoop(T, x) ==
  IF IsRoot(T, x) \/ ~IsBlack(T, x) THEN ToBlack(T, x)
  ELSE IF IsLeft(T, x)
  THEN Let(IF IsRed(T, T.right[T.parent[x]])
           THEN LeftRotate(ToRed(ToBlack(T, T.right[T.parent[x]]), T.parent[x]),
                           T.parent[x])
           ELSE T,
       LAMBDA Ta :
       LET w == Ta.right[Ta.parent[x]]
       IN IF IsBlack(Ta, Ta.left[w]) /\ IsBlack(Ta, Ta.right[w])
          THEN DeleteNodeFixupLoop(ToRed(Ta, w), Ta.parent[x])
          ELSE IF IsBlack(Ta, Ta.right[w])
          THEN DeleteNodeFixupLoop(RightRotate(ToRed(ToBlack(Ta, Ta.left[w]), w), w), x)
          ELSE Let(LeftRotate(ToBlack(ToBlack([Ta EXCEPT !.color[w] = Ta.color[Ta.parent[x]]],
                                              Ta.parent[x]),
                                      Ta.right[w]),
                              Ta.parent[x]),
               LAMBDA Td : DeleteNodeFixupLoop(Td, Td.root)))
  ELSE Let(IF IsRed(T, T.left[T.parent[x]])
           THEN RightRotate(ToRed(ToBlack(T, T.left[T.parent[x]]), T.parent[x]),
                            T.parent[x])
           ELSE T,
       LAMBDA Ta :
       LET w == Ta.left[Ta.parent[x]]
       IN IF IsBlack(Ta, Ta.right[w]) /\ IsBlack(Ta, Ta.left[w])
          THEN DeleteNodeFixupLoop(ToRed(Ta, w), Ta.parent[x])
          ELSE IF IsBlack(Ta, Ta.left[w])
          THEN DeleteNodeFixupLoop(LeftRotate(ToRed(ToBlack(Ta, Ta.right[w]), w), w), x)
          ELSE Let(RightRotate(ToBlack(ToBlack([Ta EXCEPT !.color[w] = Ta.color[Ta.parent[x]]],
                                               Ta.parent[x]),
                                       Ta.left[w]),
                               Ta.parent[x]),
               LAMBDA Td : DeleteNodeFixupLoop(Td, Td.root)))

DeleteNodeFixup(T, x) == DeleteNodeFixupLoop(T, x)

\* deleteNode(z), up to the fix-up: the tree, the node x that took the place
\* of the removed one, and the colour that left the tree
DeleteNodeUnlink(T, z) ==
  IF IsNil(T.left[z])
  THEN Let(Transplant(T, z, T.right[z]),
       LAMBDA T1 : [T |-> UpdateMetaUpward(T1, T1.parent[T.right[z]]),
                    x |-> T.right[z], c |-> T.color[z]])
  ELSE IF IsNil(T.right[z])
  THEN Let(Transplant(T, z, T.left[z]),
       LAMBDA T1 : [T |-> UpdateMetaUpward(T1, T1.parent[T.left[z]]),
                    x |-> T.left[z], c |-> T.color[z]])
  ELSE Let(Lefest(T, T.right[z]),
       LAMBDA y :
       LET x == T.right[y]
       IN Let(IF T.parent[y] = z
              THEN [T EXCEPT !.parent[x] = y]
              ELSE Let(Transplant(T, y, x),
                   LAMBDA Ta : [Ta EXCEPT !.right[y] = Ta.right[z],
                                          !.parent[Ta.right[z]] = y]),
          LAMBDA T1 :
          Let(Transplant(T1, z, y),
          LAMBDA T2 :
          Let([T2 EXCEPT !.left[y] = T2.left[z],
                         !.parent[T2.left[z]] = y,
                         !.color[y] = T2.color[z]],
          LAMBDA T5 :
          [T |-> UpdateMetaUpward(UpdateMetaUpward(T5, T5.parent[x]), y),
           x |-> x, c |-> T.color[y]]))))

\* deleteNode(z)
DeleteNode(T, z) ==
  Let(DeleteNodeUnlink(T, z),
  LAMBDA res :
  Detach(IF res.c = BLACK THEN DeleteNodeFixup(res.T, res.x) ELSE res.T, z))

\* find(offset): the node position of an offset, by the aggregates
RECURSIVE FindLoop(_, _, _, _, _)
FindLoop(T, node, offset, startOffset, startLineFeedCnt) ==
  IF IsNil(node)
  THEN [node |-> node, reminder |-> 0, startOffset |-> startOffset,
        startLineFeedCnt |-> startLineFeedCnt]
  ELSE IF T.leftSize[node] > offset
  THEN FindLoop(T, T.left[node], offset, startOffset, startLineFeedCnt)
  ELSE IF T.leftSize[node] + NodeSize(T, node) > offset
  THEN [node |-> node, reminder |-> offset - T.leftSize[node],
        startOffset |-> startOffset + T.leftSize[node],
        startLineFeedCnt |-> startLineFeedCnt + T.leftLineFeedCnt[node]]
  ELSE IF IsNil(T.right[node])
  THEN [node |-> node, reminder |-> 0, startOffset |-> startOffset,
        startLineFeedCnt |-> startLineFeedCnt]
  ELSE FindLoop(T, T.right[node], offset - (T.leftSize[node] + NodeSize(T, node)),
                startOffset + T.leftSize[node] + NodeSize(T, node),
                startLineFeedCnt + T.leftLineFeedCnt[node] + NodeLineFeedCnt(T, node))

\* list.size, list.lineFeedCnt: read off the root
ListSize(T) == T.leftSize[T.root] + T.rightSize[T.root] + NodeSize(T, T.root)

ListLineFeedCnt(T) ==
  T.leftLineFeedCnt[T.root] + T.rightLineFeedCnt[T.root] + NodeLineFeedCnt(T, T.root)

\* find with "offset > this.size" for "offset >= this.size" in its second line
FindPastSize(T, offset) ==
  IF offset <= 0
  THEN [node |-> Lefest(T, T.root), reminder |-> 0, startOffset |-> 0,
        startLineFeedCnt |-> 0]
  ELSE IF offset > ListSize(T)
  THEN [node |-> Rightest(T, T.root), reminder |-> T.piece[Rightest(T, T.root)].length,
        startOffset |-> ListSize(T) - T.piece[Rightest(T, T.root)].length,
        startLineFeedCnt |-> ListLineFeedCnt(T) - T.piece[Rightest(T, T.root)].lineFeedCnt]
  ELSE FindLoop(T, T.root, offset, 0, 0)

\* find(offset)
Find(T, offset) ==
  IF offset <= 0
  THEN [node |-> Lefest(T, T.root), reminder |-> 0, startOffset |-> 0,
        startLineFeedCnt |-> 0]
  ELSE IF offset >= ListSize(T)
  THEN LET lastNode == Rightest(T, T.root)
       IN [node |-> lastNode, reminder |-> T.piece[lastNode].length,
           startOffset |-> ListSize(T) - T.piece[lastNode].length,
           startLineFeedCnt |-> ListLineFeedCnt(T) - T.piece[lastNode].lineFeedCnt]
  ELSE FindLoop(T, T.root, offset, 0, 0)

\* list.nodeCnt: read off the root
ListNodeCnt(T) == T.leftNodeCnt[T.root] + T.rightNodeCnt[T.root] + 1

\* get(index), the while loop
RECURSIVE GetLoop(_, _, _)
GetLoop(T, node, index) ==
  IF IsNil(node) THEN node
  ELSE IF T.leftNodeCnt[node] > index THEN GetLoop(T, T.left[node], index)
  ELSE IF T.leftNodeCnt[node] + 1 = index THEN node
  ELSE GetLoop(T, T.right[node], (index - T.leftLineFeedCnt[node]) - 1)

\* get(index)
Get(T, index) ==
  IF index > 0 /\ index <= ListNodeCnt(T) THEN GetLoop(T, T.root, index) ELSE T.root

\* list.firstNode, list.lastNode
FirstNode(T) == Get(T, 1)

LastNode(T) == Get(T, ListNodeCnt(T))

\* ------------------------------------------------------ text and meta

LF == "\n"

EOL == <<LF>>

Min(a, b) == IF a < b THEN a ELSE b

Max(a, b) == IF a > b THEN a ELSE b

Clamp(i, n) == Max(0, Min(i, n))

\* String.prototype.substring(start, end) on a sequence of characters: both
\* indices are clamped to the string and swapped when start > end
Substring(str, start, end) ==
  LET a == Clamp(start, Len(str))
      b == Clamp(end, Len(str))
  IN SubSeq(str, Min(a, b) + 1, Max(a, b))

\* computeLineFeedCnt(str)
ComputeLineFeedCnt(str) == Cardinality({i \in 1..Len(str) : str[i] = LF})

\* getTextInBuffer(bufferIndex, start, length)
GetTextInBuffer(buf, bufferIndex, start, length) ==
  IF bufferIndex < 0 THEN <<>> ELSE Substring(buf, start, start + length)

\* getTextInPiece(piece)
GetTextInPiece(buf, piece) ==
  GetTextInBuffer(buf, piece.bufferIndex, piece.start, piece.length)

\* The keys of a meta object, in the order in which an object lists them.
KeyOrder == <<"b", "i">>

HasKey(kv, k) == \E e \in kv : e[1] = k

ValueOf(kv, k) == (CHOOSE e \in kv : e[1] = k)[2]

SetKey(kv, k, v) == {e \in kv : e[1] # k} \cup {<<k, v>>}

RemoveKey(kv, k) == {e \in kv : e[1] # k}

\* mergeMeta(target, source): the merged object with the forward and the
\* inverse patches, or null when the merge changes nothing
RECURSIVE MergeKeys(_, _, _, _)
MergeKeys(acc, tkv, skv, i) ==
  IF i > Len(KeyOrder) THEN acc
  ELSE LET k == KeyOrder[i]
       IN IF ~HasKey(skv, k) THEN MergeKeys(acc, tkv, skv, i + 1)
          ELSE LET v == ValueOf(skv, k)
               IN IF HasKey(tkv, k) /\ ValueOf(tkv, k) = v
                  THEN MergeKeys(acc, tkv, skv, i + 1)
                  ELSE IF HasKey(tkv, k)
                  THEN MergeKeys(
                         [merged |-> SetKey(acc.merged, k, v),
                          forward |-> Append(acc.forward, [op |-> "replace", path |-> k, value |-> v]),
                          inverse |-> Append(acc.inverse,
                                             [op |-> "replace", path |-> k, value |-> ValueOf(tkv, k)])],
                         tkv, skv, i + 1)
                  ELSE MergeKeys(
                         [merged |-> SetKey(acc.merged, k, v),
                          forward |-> Append(acc.forward, [op |-> "add", path |-> k, value |-> v]),
                          inverse |-> Append(acc.inverse, [op |-> "remove", path |-> k, value |-> 0])],
                         tkv, skv, i + 1)

\* mergeMeta with the two patch lists in each other's place
MergeMetaSwapped(target, source) ==
  LET tkv == IF target.null THEN {} ELSE target.kv
      r == MergeKeys([merged |-> tkv, forward |-> <<>>, inverse |-> <<>>], tkv, source.kv, 1)
  IN IF r.forward = <<>>
     THEN [isNull |-> TRUE, result |-> <<NullMeta, <<>>, <<>>>>]
     ELSE [isNull |-> FALSE, result |-> <<ObjMeta(r.merged), r.inverse, r.forward>>]

MergeMeta(target, source) ==
  LET tkv == IF target.null THEN {} ELSE target.kv
      r == MergeKeys([merged |-> tkv, forward |-> <<>>, inverse |-> <<>>], tkv, source.kv, 1)
  IN IF r.forward = <<>>
     THEN [isNull |-> TRUE, result |-> <<NullMeta, <<>>, <<>>>>]
     ELSE [isNull |-> FALSE, result |-> <<ObjMeta(r.merged), r.forward, r.inverse>>]

\* immer's applyPatches(base, patches)
RECURSIVE ApplyPatchesFrom(_, _, _)
ApplyPatchesFrom(kv, patches, i) ==
  IF i > Len(patches) THEN kv
  ELSE LET q == patches[i]
       IN ApplyPatchesFrom(IF q.op = "remove" THEN RemoveKey(kv, q.path)
                           ELSE SetKey(kv, q.path, q.value), patches, i + 1)

\* applyPatches(meta || {}, patches)
ApplyPatches(meta, patches) ==
  ObjMeta(ApplyPatchesFrom(IF meta.null THEN {} ELSE meta.kv, patches, 1))

\* ------------------------------------------------------ change history

Diff(type, lineNumber) == [type |-> type, lineNumber |-> lineNumber]

\* createInsertChange / createDeleteChange / createFormatChange
Change(type, startOffset, length, text, meta, pieces, piecePatches, diffs) ==
  [type |-> type, startOffset |-> startOffset, length |-> length, text |-> text,
   meta |-> meta, pieces |-> pieces, piecePatches |-> piecePatches, diffs |-> diffs]

CreateInsertChange(startOffset, text, meta, diffs) ==
  Change("insert", startOffset, text[3], text, meta, <<>>, <<>>, diffs)

CreateDeleteChange(startOffset, length, pieces, diffs) ==
  Change("delete", startOffset, length, <<0, 0, 0>>, NullMeta, pieces, <<>>, diffs)

CreateFormatChange(startOffset, length, meta, piecePatches, diffs) ==
  Change("format", startOffset, length, <<0, 0, 0>>, meta, <<>>, piecePatches, diffs)

\* The engine between two steps of a call: the tree, the add buffer and the
\* change history; applying is set while undo() or redo() replays a group,
\* hung is set when a loop of the call never ends.
Engine(T, buf, undo, redo, chg) ==
  [tree |-> T, buffer |-> buf, undoStack |-> undo, redoStack |-> redo,
   changing |-> chg, applying |-> FALSE, hung |-> FALSE]

\* changeHistory.push(change): nothing while undo() or redo() replays; else
\* the redo stack is dropped and the change joins the open group or forms
\* a group of its own
Push(E, change) ==
  IF E.applying THEN E
  ELSE IF E.changing /\ E.undoStack # <<>>
  THEN [E EXCEPT !.redoStack = <<>>,
                 !.undoStack[Len(E.undoStack)] = Append(@, change)]
  ELSE [E EXCEPT !.redoStack = <<>>,
                 !.undoStack = Append(@, <<change>>)]

\* changeHistory.startChange(): a new, empty group is opened
ChangeStackStart(E) ==
  [E EXCEPT !.changing = TRUE, !.undoStack = Append(@, <<>>)]

\* changeHistory.endChange()
ChangeStackEnd(E) == [E EXCEPT !.changing = FALSE]

\* ---------------------------------------------------------- PieceTree

\* insertFixedRight(node, piece): a new node with the piece, after node
InsertFixedRight(T, node, piece) ==
  LET n == FreshNode(T)
  IN IF HasFreshNode(T) THEN InsertAfter(CreatePieceNode(T, n, piece), n, node)
     ELSE [T EXCEPT !.full = TRUE]

\* insertFixedLeft(node, piece): a new node with the piece, before node
InsertFixedLeft(T, node, piece) ==
  LET n == FreshNode(T)
  IN IF HasFreshNode(T) THEN InsertBefore(CreatePieceNode(T, n, piece), n, node)
     ELSE [T EXCEPT !.full = TRUE]

\* createPiece(text, meta, lineFeedCnt): the piece, and the buffer after it
CreatePiece(buf, text, meta, lineFeedCnt) ==
  IF text # <<>>
  THEN [piece |-> NodePiece(0, Len(buf), Len(text), lineFeedCnt, meta),
        buffer |-> buf \o text]
  ELSE [piece |-> NodePiece(-1, 0, 1, 0, meta), buffer |-> buf]

\* PieceTree.splitNode(node, reminder): the left part becomes a new node
\* before node
SplitNode(T, buf, node, reminder) ==
  LET p == T.piece[node]
      leftStr == Substring(buf, p.start, p.start + reminder)
      leftLineFeedsCnt == ComputeLineFeedCnt(leftStr)
      leftPiece == NodePiece(p.bufferIndex, p.start, reminder, leftLineFeedsCnt, p.meta)
      T1 == [T EXCEPT !.piece[node].start = @ + reminder,
                      !.piece[node].length = @ - reminder,
                      !.piece[node].lineFeedCnt = @ - leftLineFeedsCnt]
      leftNode == FreshNode(T1)
  IN [tree |-> InsertFixedLeft(T1, node, leftPiece), leftNode |-> leftNode, rightNode |-> node]

\* recomputeLineFeedsCntInPiece(piece)
RecomputeLineFeedsCntInPiece(buf, piece) ==
  IF piece.bufferIndex < 0 \/ piece.bufferIndex > 0 THEN 0
  ELSE ComputeLineFeedCnt(Substring(buf, piece.start, piece.start + piece.length))

\* insertInner, lines 498-508 and 477-487: what becomes of the run txt
\* collected so far; st is <<tree, buffer, node>> with the line feeds seen
FlushTxt(st, canAppend, isEmptyMeta, meta) ==
  IF st.lineFeedCnt = 0 /\ canAppend /\ st.txt # <<>>
  THEN [st EXCEPT !.buffer = @ \o st.txt,
                  !.tree = UpdateMetaUpward(
                             [st.tree EXCEPT !.piece[st.node].length = @ + Len(st.txt)],
                             st.node)]
  ELSE IF (st.lineFeedCnt = 0 /\ (st.txt # <<>> \/ ~isEmptyMeta))
          \/ (st.lineFeedCnt # 0 /\ st.txt # <<>>)
  THEN LET cp == CreatePiece(st.buffer, st.txt, meta, 0)
       IN [st EXCEPT !.buffer = cp.buffer,
                     !.node = FreshNode(st.tree),
                     !.tree = InsertFixedRight(st.tree, st.node, cp.piece)]
  ELSE st

\* insertInner, lines 474-496: the walk over the characters of text
RECURSIVE InsertWalk(_, _, _, _, _, _)
InsertWalk(st, text, i, canAppend, isEmptyMeta, meta) ==
  IF i > Len(text) THEN st
  ELSE IF text[i] = LF
  THEN Let(FlushTxt(st, canAppend, isEmptyMeta, meta),
       LAMBDA s1 :
       LET cp == CreatePiece(s1.buffer, EOL, meta, 1)
       IN InsertWalk([s1 EXCEPT !.buffer = cp.buffer,
                                !.node = FreshNode(s1.tree),
                                !.tree = InsertFixedRight(s1.tree, s1.node, cp.piece),
                                !.txt = <<>>,
                                !.lineFeedCnt = @ + 1],
                     text, i + 1, canAppend, isEmptyMeta, meta))
  ELSE InsertWalk([st EXCEPT !.txt = Append(@, text[i])], text, i + 1,
                  canAppend, isEmptyMeta, meta)

\* insertInner, lines 456-466: the node after which the text goes, and the
\* line of the first diff
InsertPlace(T, buf, offset, pos) ==
  IF pos.startOffset = offset
  THEN [tree |-> T, node |-> Predecessor(T, pos.node),
        startLineFeedCnt |-> pos.startLineFeedCnt]
  ELSE IF offset > pos.startOffset
          /\ offset < pos.startOffset + T.piece[pos.node].length
  THEN Let(SplitNode(T, buf, pos.node, pos.reminder),
       LAMBDA sp : [tree |-> sp.tree, node |-> sp.leftNode,
                    startLineFeedCnt |-> pos.startLineFeedCnt])
  ELSE [tree |-> T, node |-> pos.node,
        startLineFeedCnt |-> pos.startLineFeedCnt + T.piece[pos.node].lineFeedCnt]

\* insertInner without its last statement but one, changeHistory.push(change)
InsertDoneUnrecorded(E, offset, text, meta, startLineFeedCnt, done) ==
  [E |-> [E EXCEPT !.tree = done.tree, !.buffer = done.buffer],
   diffs |-> [i \in 1..(done.lineFeedCnt + 1) |->
                IF i = 1 THEN Diff("replace", startLineFeedCnt)
                ELSE Diff("insert", startLineFeedCnt + i - 1)]]

\* insertInner, lines 510-522: the diffs, and the change pushed
InsertDone(E, offset, text, meta, startLineFeedCnt, done) ==
  LET diffs == [i \in 1..(done.lineFeedCnt + 1) |->
                  IF i = 1 THEN Diff("replace", startLineFeedCnt)
                  ELSE Diff("insert", startLineFeedCnt + i - 1)]
  IN [E |-> Push([E EXCEPT !.tree = done.tree, !.buffer = done.buffer],
                 CreateInsertChange(offset,
                                    <<0, Len(done.buffer) - Len(text), Len(text)>>,
                                    meta, diffs)),
      diffs |-> diffs]

\* insertInner(offset, text, meta): the engine after it and the diffs
InsertInner(E, offset, text, meta) ==
  Let(InsertPlace(E.tree, E.buffer, offset, Find(E.tree, offset)),
  LAMBDA at :
  LET isEmptyMeta == meta.null
      np == at.tree.piece[at.node]
      isNotLinkBreak == np.lineFeedCnt <= 0
      isContinousInput ==
        IsNotNil(at.node) /\ np.bufferIndex = 0 /\ Len(E.buffer) = np.start + np.length
      canAppend == isContinousInput /\ isEmptyMeta /\ isNotLinkBreak
  IN InsertDone(E, offset, text, meta, at.startLineFeedCnt,
                FlushTxt(InsertWalk([tree |-> at.tree, buffer |-> E.buffer,
                                     node |-> at.node, txt |-> <<>>, lineFeedCnt |-> 0],
                                    text, 1, canAppend, isEmptyMeta, meta),
                         canAppend, isEmptyMeta, meta)))

\* deleteInner, lines 544-583: the walk over the nodes of the range. The
\* sentinel's piece has length 0, so once node is the sentinel the second
\* branch repeats without length ever decreasing: the call never returns.
RECURSIVE DeleteWalk(_, _)
DeleteWalk(st, buf) ==
  IF st.length <= 0 THEN st
  ELSE IF IsNil(st.node) THEN [st EXCEPT !.hung = TRUE]
  ELSE LET p == st.tree.piece[st.node]
       IN IF st.length = p.length
          THEN DeleteWalk([st EXCEPT !.tree = DeleteNode(st.tree, st.node),
                                     !.length = @ - p.length,
                                     !.lineFeedCnt = @ + p.lineFeedCnt,
                                     !.pieceChange = Append(@, p)], buf)
          ELSE IF st.length >= p.length
          THEN DeleteWalk([st EXCEPT !.node = Successor(st.tree, st.node),
                                     !.tree = DeleteNode(st.tree, st.node),
                                     !.length = @ - p.length,
                                     !.lineFeedCnt = @ + p.lineFeedCnt,
                                     !.pieceChange = Append(@, p)], buf)
          ELSE LET moved == [p EXCEPT !.start = @ + st.length, !.length = @ - st.length]
                   cnt == RecomputeLineFeedsCntInPiece(buf, moved)
               IN [st EXCEPT !.tree = [st.tree EXCEPT !.piece[st.node] =
                                          [moved EXCEPT !.lineFeedCnt = cnt]],
                             !.lineFeedCnt = @ + (p.lineFeedCnt - cnt),
                             !.pieceChange =
                                Append(@, NodePiece(p.bufferIndex, p.start, st.length,
                                                    p.lineFeedCnt - cnt, NullMeta)),
                             !.length = 0]

\* deleteInner, lines 530-540: the node at which the removal starts
DeletePlace(T, buf, offset, pos) ==
  IF offset # pos.startOffset
  THEN IF offset - pos.startOffset = T.piece[pos.node].length
       THEN [tree |-> T, node |-> Successor(T, pos.node)]
       ELSE Let(SplitNode(T, buf, pos.node, offset - pos.startOffset),
            LAMBDA sp : [tree |-> sp.tree, node |-> sp.rightNode])
  ELSE [tree |-> T, node |-> pos.node]

\* deleteInner, lines 585-596: the diffs, and the change pushed
DeleteDone(E, offset, length, startLineFeedCnt, done) ==
  LET diffs == [i \in 1..(done.lineFeedCnt + 1) |->
                  IF i = 1 THEN Diff("replace", startLineFeedCnt)
                  ELSE Diff("remove", startLineFeedCnt + i - 1)]
  IN IF done.hung THEN [E |-> [E EXCEPT !.hung = TRUE], diffs |-> <<>>]
     ELSE [E |-> Push([E EXCEPT !.tree = done.tree],
                      CreateDeleteChange(offset, length, done.pieceChange, diffs)),
           diffs |-> diffs]

\* deleteInner(offset, length): the engine after it and the diffs
DeleteInner(E, offset, length) ==
  Let(Find(E.tree, offset),
  LAMBDA pos :
  Let(DeletePlace(E.tree, E.buffer, offset, pos),
  LAMBDA at :
  DeleteDone(E, offset, length, pos.startLineFeedCnt,
             DeleteWalk([tree |-> at.tree, node |-> at.node, length |-> length,
                         lineFeedCnt |-> 0, pieceChange |-> <<>>, hung |-> FALSE],
                        E.buffer))))

\* determinePieceType(piece)
DeterminePieceType(piece) ==
  IF piece.lineFeedCnt = 1 THEN "LINE_FEED"
  ELSE IF piece.bufferIndex < 0 THEN "NON_TEXT"
  ELSE "TEXT"

\* formatInner, lines 634-639 and 651-656: the meta is merged into the piece
\* of node and the patch is recorded
MergeIntoNode(st, node, meta) ==
  Let(MergeMeta(st.tree.piece[node].meta, meta),
  LAMBDA mergeResult :
  LET target == mergeResult.result[1]
      inversePatches == mergeResult.result[2]
  IN IF mergeResult.isNull THEN st
     ELSE [st EXCEPT !.tree = [st.tree EXCEPT !.piece[node].meta = target],
                     !.piecePatches =
                        Append(@, [startOffset |-> st.offset,
                                   length |-> st.tree.piece[node].length,
                                   inversePatches |-> inversePatches])])

\* formatInner, lines 618-661: the walk over the nodes of the range. As in
\* deleteInner, the walk never ends once node is the sentinel.
RECURSIVE FormatWalk(_, _, _, _)
FormatWalk(st, buf, meta, type) ==
  IF st.length <= 0 THEN st
  ELSE IF IsNil(st.node) THEN [st EXCEPT !.hung = TRUE]
  ELSE LET p == st.tree.piece[st.node]
       IN IF type # "ALL" /\ DeterminePieceType(p) # type
          THEN FormatWalk([st EXCEPT !.length = @ - p.length,
                                     !.offset = @ + p.length,
                                     !.node = Successor(st.tree, st.node)],
                          buf, meta, type)
          ELSE IF st.length >= p.length
          THEN Let(MergeIntoNode([st EXCEPT !.lineFeedCnt = @ + p.lineFeedCnt],
                                 st.node, meta),
               LAMBDA s1 :
               FormatWalk([s1 EXCEPT !.length = @ - p.length,
                                     !.offset = @ + p.length,
                                     !.node = Successor(s1.tree, st.node)],
                          buf, meta, type))
          ELSE Let(SplitNode(st.tree, buf, st.node, st.length),
               LAMBDA sp :
               LET lp == sp.tree.piece[sp.leftNode]
               IN Let(MergeIntoNode([st EXCEPT !.tree = sp.tree,
                                               !.node = sp.leftNode,
                                               !.lineFeedCnt = @ + lp.lineFeedCnt],
                                    sp.leftNode, meta),
                  LAMBDA s1 :
                  FormatWalk([s1 EXCEPT !.length = @ - lp.length,
                                        !.offset = @ + lp.length],
                             buf, meta, type)))

\* formatInner, lines 605-616: the node at which the formatting starts, and
\* the line of the first diff
FormatPlace(T, buf, offset, pos) ==
  IF pos.reminder = T.piece[pos.node].length
  THEN Let(Successor(T, pos.node),
       LAMBDA next :
       [tree |-> T, node |-> next,
        startLineFeedCnt |-> pos.startLineFeedCnt + T.piece[next].lineFeedCnt])
  ELSE IF pos.reminder > 0 /\ pos.reminder < T.piece[pos.node].length
  THEN Let(SplitNode(T, buf, pos.node, offset - pos.startOffset),
       LAMBDA sp :
       [tree |-> sp.tree, node |-> sp.rightNode,
        startLineFeedCnt |->
          pos.startLineFeedCnt + sp.tree.piece[sp.leftNode].lineFeedCnt])
  ELSE [tree |-> T, node |-> pos.node, startLineFeedCnt |-> pos.startLineFeedCnt]

\* formatInner, lines 663-673: the diffs, and the change pushed
FormatDone(E, offset, length, meta, startLineFeedCnt, done) ==
  LET diffs == [i \in 1..(done.lineFeedCnt + 1) |->
                  Diff("replace", startLineFeedCnt + i - 1)]
  IN IF done.hung THEN [E |-> [E EXCEPT !.hung = TRUE], diffs |-> <<>>]
     ELSE [E |-> Push([E EXCEPT !.tree = done.tree],
                      CreateFormatChange(offset, length, meta, done.piecePatches, diffs)),
           diffs |-> diffs]

\* formatInner(offset, length, meta, type): the engine after it and the diffs
FormatInner(E, offset, length, meta, type) ==
  Let(FormatPlace(E.tree, E.buffer, offset, Find(E.tree, offset)),
  LAMBDA at :
  FormatDone(E, offset, length, meta, at.startLineFeedCnt,
             FormatWalk([tree |-> at.tree, node |-> at.node, length |-> length,
                         offset |-> offset, lineFeedCnt |-> 0, piecePatches |-> <<>>,
                         hung |-> FALSE],
                        E.buffer, meta, type)))

\* doUndo, lines 152-160 and 165-168: the captured pieces go back in order
RECURSIVE ReinsertRight(_, _, _, _)
ReinsertRight(T, node, pieces, i) ==
  IF i > Len(pieces) THEN T
  ELSE Let(InsertFixedRight(T, node, pieces[i]),
       LAMBDA T1 : ReinsertRight(T1, Successor(T1, node), pieces, i + 1))

RECURSIVE ReinsertLeft(_, _, _, _)
ReinsertLeft(T, node, pieces, i) ==
  IF i > Len(pieces) THEN T
  ELSE ReinsertLeft(InsertFixedLeft(T, node, pieces[i]), node, pieces, i + 1)

FlipDiffs(diffs, from, to) ==
  [i \in 1..Len(diffs) |-> IF diffs[i].type = from THEN Diff(to, diffs[i].lineNumber)
                           ELSE diffs[i]]

\* doUndo, lines 182-190: the recorded patches are applied to the node found
\* at each patch's offset
RECURSIVE UndoPatches(_, _, _)
UndoPatches(T, piecePatches, i) ==
  IF i > Len(piecePatches) THEN T
  ELSE Let(Find(T, piecePatches[i].startOffset),
       LAMBDA pos :
       Let(IF pos.reminder = T.piece[pos.node].length
           THEN Successor(T, pos.node) ELSE pos.node,
       LAMBDA node :
       UndoPatches([T EXCEPT !.piece[node].meta =
                                ApplyPatches(T.piece[node].meta,
                                             piecePatches[i].inversePatches)],
                   piecePatches, i + 1)))

\* doUndo, lines 144-170: the captured pieces are put back at the offset
UndoDelete(T, change, nodePosition) ==
  IF nodePosition.startOffset = change.startOffset
  THEN Let(Predecessor(T, nodePosition.node),
       LAMBDA node :
       IF node = SENTINEL
       THEN ReinsertLeft(T, nodePosition.node, change.pieces, 1)
       ELSE ReinsertRight(T, node, change.pieces, 1))
  ELSE IF nodePosition.reminder = T.piece[nodePosition.node].length
  THEN ReinsertRight(T, nodePosition.node, change.pieces, 1)
  ELSE T

\* doUndo(change): the engine after it, the diffs returned, and the change
\* with its diffs as the call leaves them (they are rewritten in place)
DoUndo(E, change) ==
  IF change.type = "insert"
  THEN LET diffs == FlipDiffs(change.diffs, "insert", "remove")
       IN [E |-> DeleteInner(E, change.startOffset, change.length).E,
           diffs |-> diffs, change |-> [change EXCEPT !.diffs = diffs]]
  ELSE IF change.type = "delete"
  THEN LET diffs == FlipDiffs(change.diffs, "remove", "insert")
       IN [E |-> [E EXCEPT !.tree = UndoDelete(E.tree, change,
                                               Find(E.tree, change.startOffset))],
           diffs |-> diffs, change |-> [change EXCEPT !.diffs = diffs]]
  ELSE [E |-> [E EXCEPT !.tree = UndoPatches(E.tree, change.piecePatches, 1)],
        diffs |-> change.diffs, change |-> change]

\* doRedo(change)
DoRedo(E, change) ==
  IF change.type = "insert"
  THEN LET txt == GetTextInBuffer(E.buffer, change.text[1], change.text[2], change.text[3])
       IN InsertInner(E, change.startOffset, txt, change.meta)
  ELSE IF change.type = "delete"
  THEN DeleteInner(E, change.startOffset, change.length)
  ELSE FormatInner(E, change.startOffset, change.length, change.meta, "ALL")

\* applayUndo: the changes of the group, last first
RECURSIVE UndoGroup(_, _, _)
UndoGroup(acc, group, i) ==
  IF i < 1 \/ acc.E.hung THEN acc
  ELSE Let(DoUndo(acc.E, group[i]),
       LAMBDA r :
       UndoGroup([E |-> r.E, diffs |-> acc.diffs \o r.diffs,
                  group |-> [acc.group EXCEPT ![i] = r.change],
                  applied |-> Append(acc.applied, i)],
                 group, i - 1))

\* changeHistory.applayUndo(change => doUndo(change)): the newest group is
\* taken off the undo stack, its changes are undone last first, and it is
\* put on the redo stack
ApplayUndo(E) ==
  IF E.undoStack = <<>> THEN [E |-> E, diffs |-> <<>>, applied |-> <<>>]
  ELSE Let(UndoGroup([E |-> [E EXCEPT !.undoStack = SubSeq(@, 1, Len(@) - 1),
                                      !.applying = TRUE],
                      diffs |-> <<>>, group |-> E.undoStack[Len(E.undoStack)],
                      applied |-> <<>>],
                     E.undoStack[Len(E.undoStack)], Len(E.undoStack[Len(E.undoStack)])),
       LAMBDA r :
       [E |-> [r.E EXCEPT !.redoStack = Append(@, r.group), !.applying = FALSE],
        diffs |-> r.diffs, applied |-> r.applied])

\* applayRedo: the changes of the group, first first
RECURSIVE RedoGroup(_, _, _)
RedoGroup(acc, group, i) ==
  IF i > Len(group) \/ acc.E.hung THEN acc
  ELSE Let(DoRedo(acc.E, group[i]),
       LAMBDA r :
       RedoGroup([E |-> r.E, diffs |-> acc.diffs \o r.diffs,
                  applied |-> Append(acc.applied, i)],
                 group, i + 1))

\* changeHistory.applayRedo(change => doRedo(change)): the group undone last
\* is re-applied in its original order and put back on the undo stack
ApplayRedo(E) ==
  IF E.redoStack = <<>> THEN [E |-> E, diffs |-> <<>>, applied |-> <<>>]
  ELSE Let(RedoGroup([E |-> [E EXCEPT !.redoStack = SubSeq(@, 1, Len(@) - 1),
                                      !.applying = TRUE],
                      diffs |-> <<>>, applied |-> <<>>],
                     E.redoStack[Len(E.redoStack)], 1),
       LAMBDA r :
       [E |-> [r.E EXCEPT !.undoStack = Append(@, E.redoStack[Len(E.redoStack)]),
                          !.applying = FALSE],
        diffs |-> r.diffs, applied |-> r.applied])

\* The nodes in in-order sequence, by the child links.
RECURSIVE InOrder(_, _)
InOrder(T, n) ==
  IF IsNil(n) THEN <<>>
  ELSE InOrder(T, T.left[n]) \o <<n>> \o InOrder(T, T.right[n])

RECURSIVE Concat(_, _)
Concat(f, i) == IF i > Len(f) THEN <<>> ELSE f[i] \o Concat(f, i + 1)

\* forEachPiece: every node but the first, as {text, length, meta}
GetPieces(T, buf) ==
  LET order == InOrder(T, T.root)
  IN [i \in 1..(Len(order) - 1) |->
        LET piece == T.piece[order[i + 1]]
        IN [text |-> GetTextInPiece(buf, piece), length |-> piece.length,
            meta |-> piece.meta]]

\* getText()
GetText(T, buf) ==
  LET pieces == GetPieces(T, buf)
  IN Concat([i \in 1..Len(pieces) |-> pieces[i].text], 1)

\* getTextInRange, the while loop: the pieces from node on, until to
\* characters are taken
RECURSIVE RangeTextWalk(_, _, _, _, _)
RangeTextWalk(T, buf, node, to, text) ==
  IF IsNil(node) \/ to <= 0 THEN text
  ELSE RangeTextWalk(T, buf, Successor(T, node), to - T.piece[node].length,
                     text \o (IF to < T.piece[node].length
                              THEN GetTextInBuffer(buf, T.piece[node].bufferIndex,
                                                   T.piece[node].start, to)
                              ELSE GetTextInPiece(buf, T.piece[node])))

\* getTextInRange(from, to)
GetTextInRange(T, buf, from, to) ==
  IF to + 1 > from + 1 /\ from + 1 >= 0
  THEN LET pos == Find(T, from + 1)
           piece == T.piece[pos.node]
           len == piece.length - pos.reminder
       IN IF pos.reminder = piece.length
          THEN RangeTextWalk(T, buf, Successor(T, pos.node), to - from, <<>>)
          ELSE IF pos.reminder > 0 /\ pos.reminder < piece.length
          THEN RangeTextWalk(T, buf, Successor(T, pos.node), (to - from) - len,
                             GetTextInBuffer(buf, piece.bufferIndex,
                                             piece.start + pos.reminder, len))
          ELSE RangeTextWalk(T, buf, pos.node, to - from, <<>>)
  ELSE <<>>

\* insert(offset, text, meta), delete(offset, length), format(offset, length,
\* meta): the external offset is moved past the leading line feed
Internal(offset) == IF offset <= 0 THEN 1 ELSE offset + 1

FIRST_LINE_SPECIAL_SYMBOL == -10000

PublicInsert(E, offset, text, meta) == InsertInner(E, Internal(offset), text, meta)

PublicDelete(E, offset, length) == DeleteInner(E, Internal(offset), length)

PublicFormat(E, offset, length, meta) ==
  FormatInner(E, IF offset = FIRST_LINE_SPECIAL_SYMBOL THEN 0 ELSE Internal(offset),
              length, meta, "ALL")

\* formatText(offset, length, meta), formatNonText(offset, length, meta): the
\* offset is handed on as it is
PublicFormatText(E, offset, length, meta) == FormatInner(E, offset, length, meta, "TEXT")

PublicFormatNonText(E, offset, length, meta) ==
  FormatInner(E, offset, length, meta, "NON_TEXT")

\* getLength(): the length of the document, the leading line feed not counted
GetLength(T) == ListSize(T) - 1

\* getLineCount(): the line feeds of the list, the leading one included
GetLineCount(T) == ListLineFeedCnt(T)

\* findByLineNumber: the scan for the k-th node that holds a line feed
RECURSIVE LinePosition(_, _, _, _, _, _)
LinePosition(T, order, i, k, startOffset, startLineFeedCnt) ==
  IF i > Len(order)
  THEN [node |-> SENTINEL, reminder |-> 0, startOffset |-> startOffset,
        startLineFeedCnt |-> startLineFeedCnt]
  ELSE IF T.piece[order[i]].lineFeedCnt > 0 /\ k <= 1
  THEN [node |-> order[i], reminder |-> 0, startOffset |-> startOffset,
        startLineFeedCnt |-> startLineFeedCnt]
  ELSE LinePosition(T, order, i + 1,
                    IF T.piece[order[i]].lineFeedCnt > 0 THEN k - 1 ELSE k,
                    startOffset + T.piece[order[i]].length,
                    startLineFeedCnt + T.piece[order[i]].lineFeedCnt)

\* findByLineNumber(lineNumber): the position of the node that starts the
\* line, the number clamped to 1..getLineCount()
FindByLineNumber(T, lineNumber) ==
  LinePosition(T, InOrder(T, T.root), 1, Max(1, Min(lineNumber, GetLineCount(T))), 0, 0)

\* return []
NoDiffs(E) == [E |-> E, diffs |-> <<>>]

\* deleteLine(lineNumber)
DeleteLine(E, lineNumber) ==
  LET cnt == GetLength(E.tree)
      lineCnt == GetLineCount(E.tree)
  IN IF lineCnt = 1
     THEN IF lineNumber = 1 THEN DeleteInner(E, 1, cnt) ELSE NoDiffs(E)
     ELSE IF lineNumber = lineCnt
     THEN DeleteInner(E, FindByLineNumber(E.tree, lineNumber).startOffset, cnt)
     ELSE IF lineNumber > lineCnt \/ lineNumber <= 0 THEN NoDiffs(E)
     ELSE DeleteInner(E, FindByLineNumber(E.tree, lineNumber).startOffset,
                      FindByLineNumber(E.tree, lineNumber + 1).startOffset
                        - FindByLineNumber(E.tree, lineNumber).startOffset)

\* formatLine(lineNumber, meta)
FormatLine(E, lineNumber, meta) ==
  FormatInner(E, FindByLineNumber(E.tree, lineNumber).startOffset, 1, meta, "LINE_FEED")

\* formatInLine(lineNumber, meta)
FormatInLine(E, lineNumber, meta) ==
  LET cnt == GetLength(E.tree)
      lineCnt == GetLineCount(E.tree)
  IN IF lineCnt = 1
     THEN IF lineNumber = 1 THEN FormatInner(E, 1, cnt, meta, "ALL") ELSE NoDiffs(E)
     ELSE IF lineNumber = lineCnt
     THEN FormatInner(E, FindByLineNumber(E.tree, lineNumber).startOffset + 1, cnt,
                      meta, "ALL")
     ELSE IF lineNumber > 0 /\ lineNumber <= lineCnt
     THEN FormatInner(E, FindByLineNumber(E.tree, lineNumber).startOffset + 1,
                      FindByLineNumber(E.tree, lineNumber + 1).startOffset
                        - FindByLineNumber(E.tree, lineNumber).startOffset,
                      meta, "ALL")
     ELSE NoDiffs(E)

\* formatTextInLine(lineNumber, meta)
FormatTextInLine(E, lineNumber, meta) ==
  LET cnt == GetLength(E.tree)
      lineCnt == GetLineCount(E.tree)
  IN IF lineCnt = 1
     THEN IF lineNumber = 1 THEN PublicFormatText(E, 1, cnt, meta) ELSE NoDiffs(E)
     ELSE IF lineNumber = lineCnt
     THEN PublicFormatText(E, FindByLineNumber(E.tree, lineNumber).startOffset, cnt, meta)
     ELSE IF lineNumber > 0 /\ lineNumber <= lineCnt
     THEN PublicFormatText(E, FindByLineNumber(E.tree, lineNumber).startOffset,
                           FindByLineNumber(E.tree, lineNumber + 1).startOffset
                             - FindByLineNumber(E.tree, lineNumber).startOffset,
                           meta)
     ELSE NoDiffs(E)

\* formatNonTextInLine(lineNumber, meta)
FormatNonTextInLine(E, lineNumber, meta) ==
  LET cnt == GetLength(E.tree)
      lineCnt == GetLineCount(E.tree)
  IN IF lineCnt = 1
     THEN IF lineNumber = 1 THEN PublicFormatNonText(E, 1, cnt, meta) ELSE NoDiffs(E)
     ELSE IF lineNumber = lineCnt
     THEN PublicFormatNonText(E, FindByLineNumber(E.tree, lineNumber).startOffset, cnt,
                              meta)
     ELSE IF lineNumber > 0 /\ lineNumber <= lineCnt
     THEN PublicFormatNonText(E, FindByLineNumber(E.tree, lineNumber).startOffset,
                              FindByLineNumber(E.tree, lineNumber + 1).startOffset
                                - FindByLineNumber(E.tree, lineNumber).startOffset,
                              meta)
     ELSE NoDiffs(E)

\* getLine, the while loop: the pieces from node up to the next line feed
RECURSIVE LineWalk(_, _, _, _)
LineWalk(T, buf, node, pieces) ==
  IF IsNil(node) \/ T.piece[node].lineFeedCnt > 0 THEN pieces
  ELSE LineWalk(T, buf, Successor(T, node),
                Append(pieces, [text |-> GetTextInPiece(buf, T.piece[node]),
                                length |-> T.piece[node].length,
                                meta |-> T.piece[node].meta]))

\* { text: '', length: 0, meta: null }
EmptyLinePiece == [text |-> <<>>, length |-> 0, meta |-> NullMeta]

\* getLine(lineNumber)
GetLine(T, buf, lineNumber) ==
  LET node == FindByLineNumber(T, lineNumber).node
      pieces == LineWalk(T, buf, Successor(T, node), <<>>)
  IN [meta |-> T.piece[node].meta,
      pieces |-> IF Len(pieces) = 0 THEN <<EmptyLinePiece>> ELSE pieces]

\* forEachLine, the while loop: a piece without line feed joins the line,
\* a line feed piece hands the line to the callback and opens the next one;
\* after the loop the last line is handed over, replaced by the empty line
\* with meta null when it has no pieces
RECURSIVE ForEachLineWalk(_, _, _, _, _)
ForEachLineWalk(T, buf, node, line, lines) ==
  IF IsNil(node)
  THEN Append(lines, IF Len(line.pieces) = 0
                     THEN [meta |-> NullMeta, pieces |-> <<EmptyLinePiece>>]
                     ELSE line)
  ELSE IF T.piece[node].lineFeedCnt = 0
  THEN ForEachLineWalk(T, buf, Successor(T, node),
                       [line EXCEPT !.pieces =
                          Append(@, [text |-> GetTextInPiece(buf, T.piece[node]),
                                     length |-> T.piece[node].length,
                                     meta |-> T.piece[node].meta])],
                       lines)
  ELSE ForEachLineWalk(T, buf, Successor(T, node),
                       [meta |-> T.piece[node].meta, pieces |-> <<>>],
                       Append(lines, line))

\* getLines(): the lines forEachLine hands over, in order
GetLines(T, buf) ==
  LET node == Lefest(T, T.root)
  IN ForEachLineWalk(T, buf, Successor(T, node),
                     [meta |-> T.piece[node].meta, pieces |-> <<>>], <<>>)

\* startChange() without its statement, this.changeHistory.startChange()
PublicStartChangeUnopened(E) == [E EXCEPT !.changing = TRUE]

\* startChange()
PublicStartChange(E) == ChangeStackStart(E)

\* endChange()
PublicEndChange(E) == ChangeStackEnd(E)

\* undo(): the diffs of changeHistory.applayUndo with doUndo as its callback
PublicUndo(E) == ApplayUndo(E)

\* redo(): the diffs of changeHistory.applayRedo with doRedo as its callback
PublicRedo(E) == ApplayRedo(E)

\* One mutation made by a callback: an insert of text or a delete.
RunMutation(E, m) ==
  IF m.op = "insert" THEN PublicInsert(E, m.offset, m.text, NullMeta).E
  ELSE PublicDelete(E, m.offset, m.length).E

\* callback(): its mutations one after the other; when callback.throws it
\* throws after the last of them
RECURSIVE RunCallback(_, _, _)
RunCallback(E, calls, i) ==
  IF i > Len(calls) \/ E.hung THEN E
  ELSE RunCallback(RunMutation(E, calls[i]), calls, i + 1)

\* change(callback) without its try / catch: what the callback throws leaves
\* change before endChange()
PublicChangeUncaught(E, callback) ==
  Let(RunCallback(PublicStartChange(E), callback.calls, 1),
  LAMBDA E1 : IF callback.throws THEN E1 ELSE PublicEndChange(E1))

\* change(callback): startChange(), the callback inside try / catch with an
\* empty handler, endChange()
PublicChange(E, callback) ==
  PublicEndChange(RunCallback(PublicStartChange(E), callback.calls, 1))

\* new PieceTree(): no initial lines, the tree is seeded with a line feed
Constructed == PublicInsert(Engine(EmptyTree, <<>>, <<>>, <<>>, FALSE), 0, EOL, NullMeta).E

\* --------------------------------------------------------------- state

VARIABLES
  tree,       \* the nodes, their links, colours, aggregates and pieces
  buffer,     \* buffers[0].buffer, the add buffer, a sequence of characters
  undoStack,  \* changeHistory: the groups that undo() reverts, oldest first
  redoStack,  \* changeHistory: the groups that redo() re-applies
  changing,   \* changeHistory: between startChange() and endChange()
  pc,         \* "idle" between calls, "hung" inside a call that never returns
  last,       \* the last call, its arguments and what it returned (history)
  snaps,      \* per group of undoStack, the text and pieces before it (history)
  redoSnaps,  \* per group of redoStack, the text and pieces before its undo (history)
  plain,      \* only plain-text inserts and in-range deletes so far (history)
  ops         \* number of calls made

vars == <<tree, buffer, undoStack, redoStack, changing, pc, last, snaps, redoSnaps, plain, ops>>

\* ------------------------------------------- PieceNodeList as a machine

\* The piece handed to a bare list by its k-th call: lengths and line-feed
\* counts that differ from one node to the next.
ListPieceAt(k) == NodePiece(0, 0, 1 + (k % MaxPieceLen), k % 2, NullMeta)

ListPieces == {ListPieceAt(ops)}

NoCall == [op |-> "none", hist |-> <<>>]

ListInit ==
  /\ tree = EmptyTree
  /\ buffer = <<>>
  /\ undoStack = <<>>
  /\ redoStack = <<>>
  /\ changing = FALSE
  /\ pc = "idle"
  /\ last = NoCall
  /\ snaps = <<>>
  /\ redoSnaps = <<>>
  /\ plain = TRUE
  /\ ops = 0

ListFrame == UNCHANGED <<buffer, undoStack, redoStack, changing, pc, snaps, redoSnaps, plain>>

\* The nodes a caller can name as reference: a node of the list, or the
\* sentinel when the list is empty (what firstNode / lastNode return then).
RefNodes == IF tree.root = SENTINEL THEN {SENTINEL} ELSE tree.used

ListInsertBefore ==
  /\ ops < MaxListOps
  /\ HasFreshNode(tree)
  /\ \E ref \in RefNodes, piece \in ListPieces :
        LET n == FreshNode(tree)
        IN /\ tree' = InsertBefore(CreatePieceNode(tree, n, piece), n, ref)
           /\ last' = [op |-> "insertBefore", node |-> n, ref |-> ref]
  /\ ops' = ops + 1
  /\ ListFrame

ListInsertAfter ==
  /\ ops < MaxListOps
  /\ HasFreshNode(tree)
  /\ \E ref \in RefNodes, piece \in ListPieces :
        LET n == FreshNode(tree)
        IN /\ tree' = InsertAfter(CreatePieceNode(tree, n, piece), n, ref)
           /\ last' = [op |-> "insertAfter", node |-> n, ref |-> ref]
  /\ ops' = ops + 1
  /\ ListFrame

ListDeleteNode ==
  /\ ops < MaxListOps
  /\ \E z \in tree.used :
        /\ tree' = DeleteNode(tree, z)
        /\ last' = [op |-> "deleteNode", node |-> z, ref |-> SENTINEL]
  /\ ops' = ops + 1
  /\ ListFrame

ListNext == ListInsertBefore \/ ListInsertAfter \/ ListDeleteNode

SpecList == ListInit /\ [][ListNext]_vars

\* ------------------------------------------------------ tree predicates

\* The nodes of the subtree of n, following the child links.
RECURSIVE SubtreeNodes(_, _)
SubtreeNodes(T, n) ==
  IF IsNil(n) THEN {}
  ELSE {n} \cup SubtreeNodes(T, T.left[n]) \cup SubtreeNodes(T, T.right[n])

RECURSIVE SumOver(_, _, _)
SumOver(T, S, field) ==
  IF S = {} THEN 0
  ELSE LET n == CHOOSE m \in S : TRUE
       IN (IF field = "length" THEN T.piece[n].length ELSE T.piece[n].lineFeedCnt)
          + SumOver(T, S \ {n}, field)

AggregatesOfNodeOK(T, n) ==
  LET L == SubtreeNodes(T, T.left[n])
      R == SubtreeNodes(T, T.right[n])
  IN /\ T.leftSize[n] = SumOver(T, L, "length")
     /\ T.rightSize[n] = SumOver(T, R, "length")
     /\ T.leftLineFeedCnt[n] = SumOver(T, L, "lineFeedCnt")
     /\ T.rightLineFeedCnt[n] = SumOver(T, R, "lineFeedCnt")
     /\ T.leftNodeCnt[n] = Cardinality(L)
     /\ T.rightNodeCnt[n] = Cardinality(R)

AggregatesOK(T) == \A n \in SubtreeNodes(T, T.root) : AggregatesOfNodeOK(T, n)

\* Black height of the subtree of n, or -1 when two paths disagree.
RECURSIVE BlackHeight(_, _)
BlackHeight(T, n) ==
  IF IsNil(n) THEN 1
  ELSE LET l == BlackHeight(T, T.left[n])
           r == BlackHeight(T, T.right[n])
       IN IF l = -1 \/ r = -1 \/ l # r THEN -1
          ELSE l + (IF T.color[n] = BLACK THEN 1 ELSE 0)

RedBlackOK(T) ==
  /\ T.color[T.root] = BLACK
  /\ \A n \in SubtreeNodes(T, T.root) :
        T.color[n] = RED => /\ T.color[T.left[n]] = BLACK
                            /\ T.color[T.right[n]] = BLACK
  /\ BlackHeight(T, T.root) # -1

\* The links form a tree over exactly the nodes in use.
WellLinked(T) ==
  /\ SubtreeNodes(T, T.root) = T.used
  /\ \A n \in T.used :
        /\ IsNotNil(T.left[n]) => T.parent[T.left[n]] = n
        /\ IsNotNil(T.right[n]) => T.parent[T.right[n]] = n
  /\ IsNotNil(T.root) => T.parent[T.root] = SENTINEL

ListInv == AggregatesOK(tree) /\ RedBlackOK(tree) /\ WellLinked(tree)

\* ----------------------------------------------- PieceTree as a machine

\* The characters typed by the k-th call: each call types its own letter.
Letters == <<"a", "b", "c", "d", "e", "f", "g", "h">>

LetterAt(k) == Letters[(k % Len(Letters)) + 1]

\* The texts a call may insert: a letter, two letters, a line feed, a line
\* feed before a letter, a letter before a line feed, and no text at all.
InsertTexts(k) ==
  {<<LetterAt(k)>>, <<LetterAt(k), LetterAt(k)>>, <<LF>>, <<LF, LetterAt(k)>>,
   <<LetterAt(k), LF>>, <<>>}

InsertMetas == {NullMeta, ObjMeta({<<"b", 1>>})}

FormatMetas == {ObjMeta({<<"b", 2>>, <<"i", 1>>})}

Current == Engine(tree, buffer, undoStack, redoStack, changing)

\* The document as a caller sees it.
Snapshot(T, buf) == [text |-> GetText(T, buf), pieces |-> GetPieces(T, buf)]

Now == Snapshot(tree, buffer)

\* The length of the document in offsets: every piece but the leading one.
RECURSIVE SumLengths(_, _)
SumLengths(pieces, i) ==
  IF i > Len(pieces) THEN 0 ELSE pieces[i].length + SumLengths(pieces, i + 1)

DocLength(T, buf) == SumLengths(GetPieces(T, buf), 1)

\* What is remembered of a call: its arguments, what it returned, the
\* document and the stacks before it, and the calls made so far.
Call(op, offset, length, text, meta, diffs, expect, group, applied) ==
  [op |-> op, offset |-> offset, length |-> length, text |-> text, meta |-> meta,
   diffs |-> diffs, before |-> Now, expect |-> expect, group |-> group,
   applied |-> applied, undoBefore |-> undoStack, redoBefore |-> redoStack,
   hist |-> Append(last.hist, op)]

Init ==
  /\ \E E \in {Constructed} :
       /\ tree = E.tree
       /\ buffer = E.buffer
       /\ undoStack = E.undoStack
       /\ redoStack = E.redoStack
  /\ changing = FALSE
  /\ pc = "idle"
  /\ last = NoCall
  /\ snaps = <<[snap |-> Snapshot(EmptyTree, <<>>),
                calls |-> <<[op |-> "insert", offset |-> 0]>>]>>
  /\ redoSnaps = <<>>
  /\ plain = TRUE
  /\ ops = 0

\* What a call that returns leaves behind.
Returned(E) ==
  /\ ~E.hung
  /\ ~E.tree.full
  /\ DocLength(E.tree, E.buffer) <= MaxLen
  /\ tree' = E.tree
  /\ buffer' = E.buffer
  /\ undoStack' = E.undoStack
  /\ redoStack' = E.redoStack
  /\ changing' = E.changing
  /\ pc' = "idle"
  /\ ops' = ops + 1

\* The history of a mutation: it joins the open group or opens its own.
Mutated(op, offset) ==
  /\ snaps' = IF changing
              THEN [snaps EXCEPT ![Len(snaps)].calls =
                                   Append(@, [op |-> op, offset |-> offset])]
              ELSE Append(snaps, [snap |-> Now,
                                  calls |-> <<[op |-> op, offset |-> offset]>>])
  /\ redoSnaps' = <<>>

\* A call that never returns.
Hangs(E, op) ==
  /\ E.hung
  /\ pc' = "hung"
  /\ last' = [op |-> op, hist |-> Append(last.hist, op)]
  /\ ops' = ops + 1
  /\ UNCHANGED <<tree, buffer, undoStack, redoStack, changing, snaps, redoSnaps, plain>>

Ready(budget) == pc = "idle" /\ ops < budget

\* The ranges [offset, offset + length) inside the document, length >= 1.
Ranges ==
  {rg \in (0..DocLength(tree, buffer)) \X (1..MaxLen) :
     rg[1] + rg[2] <= DocLength(tree, buffer)}

\* insert(offset, text, meta)
InsertCall(budget, offsets, texts, metas) ==
  /\ Ready(budget)
  /\ \E offset \in offsets, text \in texts, meta \in metas :
       /\ text # <<>> \/ ~meta.null
       /\ \E r \in {PublicInsert(Current, offset, text, meta)} :
             /\ Returned(r.E)
             /\ last' = Call("insert", offset, 0, text, meta, r.diffs, Now, <<>>, <<>>)
             /\ plain' = (plain /\ meta.null /\ text # <<>>)
             /\ Mutated("insert", offset)

\* delete(offset, length)
DeleteCall(budget, ranges) ==
  /\ Ready(budget)
  /\ \E rg \in ranges :
       \E r \in {PublicDelete(Current, rg[1], rg[2])} :
          \/ /\ Returned(r.E)
             /\ last' = Call("delete", rg[1], rg[2], <<>>, NullMeta, r.diffs, Now, <<>>, <<>>)
             /\ plain' = plain
             /\ Mutated("delete", rg[1])
          \/ Hangs(r.E, "delete")

\* format(offset, length, meta)
FormatCall(budget, ranges, metas) ==
  /\ Ready(budget)
  /\ \E rg \in ranges, meta \in metas :
       \E r \in {PublicFormat(Current, rg[1], rg[2], meta)} :
          \/ /\ Returned(r.E)
             /\ last' = Call("format", rg[1], rg[2], <<>>, meta, r.diffs, Now, <<>>, <<>>)
             /\ plain' = FALSE
             /\ Mutated("format", rg[1])
          \/ Hangs(r.E, "format")

\* startChange()
StartChangeCall(budget) ==
  /\ Ready(budget)
  /\ ~changing
  /\ Returned(PublicStartChange(Current))
  /\ last' = Call("startChange", 0, 0, <<>>, NullMeta, <<>>, Now, <<>>, <<>>)
  /\ snaps' = Append(snaps, [snap |-> Now, calls |-> <<>>])
  /\ UNCHANGED <<redoSnaps, plain>>

\* endChange()
EndChangeCall(budget) ==
  /\ Ready(budget)
  /\ changing
  /\ Returned(PublicEndChange(Current))
  /\ last' = Call("endChange", 0, 0, <<>>, NullMeta, <<>>, Now, <<>>, <<>>)
  /\ UNCHANGED <<snaps, redoSnaps, plain>>

\* undo()
UndoCall(budget) ==
  /\ Ready(budget)
  /\ ~changing
  /\ \E r \in {PublicUndo(Current)}, some \in {undoStack # <<>>} :
        \/ /\ Returned(r.E)
           /\ last' = Call("undo", 0, 0, <<>>, NullMeta, r.diffs,
                           IF some THEN snaps[Len(snaps)].snap ELSE Now,
                           IF some THEN undoStack[Len(undoStack)] ELSE <<>>, r.applied)
           /\ snaps' = IF some THEN SubSeq(snaps, 1, Len(snaps) - 1) ELSE snaps
           /\ redoSnaps' = IF some
                           THEN Append(redoSnaps, [snap |-> Now,
                                                   calls |-> snaps[Len(snaps)].calls])
                           ELSE redoSnaps
           /\ plain' = FALSE
        \/ Hangs(r.E, "undo")

\* redo()
RedoCall(budget) ==
  /\ Ready(budget)
  /\ ~changing
  /\ \E r \in {PublicRedo(Current)}, some \in {redoStack # <<>>} :
        \/ /\ Returned(r.E)
           /\ last' = Call("redo", 0, 0, <<>>, NullMeta, r.diffs,
                           IF some THEN redoSnaps[Len(redoSnaps)].snap ELSE Now,
                           IF some THEN redoStack[Len(redoStack)] ELSE <<>>, r.applied)
           /\ redoSnaps' = IF some THEN SubSeq(redoSnaps, 1, Len(redoSnaps) - 1) ELSE redoSnaps
           /\ snaps' = IF some
                       THEN Append(snaps, [snap |-> Now,
                                           calls |-> redoSnaps[Len(redoSnaps)].calls])
                       ELSE snaps
           /\ plain' = FALSE
        \/ Hangs(r.E, "redo")

\* Any client: every call, every offset and range of the document.
Insert == InsertCall(MaxOps, 0..DocLength(tree, buffer), InsertTexts(ops), InsertMetas)

Delete == DeleteCall(MaxOps, Ranges)

Format == FormatCall(MaxOps, Ranges, FormatMetas)

StartChange == StartChangeCall(MaxOps)

EndChange == EndChangeCall(MaxOps)

Undo == UndoCall(MaxOps)

Redo == RedoCall(MaxOps)

Next == Insert \/ Delete \/ Format \/ StartChange \/ EndChange \/ Undo \/ Redo

Spec == Init /\ [][Next]_vars

\* A client that only types and erases plain text; offsets below 0 included.
PlainInsert ==
  InsertCall(MaxPlainOps, (-1)..DocLength(tree, buffer),
             {<<LetterAt(ops)>>, <<LetterAt(ops), LetterAt(ops)>>, <<LF>>}, {NullMeta})

PlainDelete == DeleteCall(MaxPlainOps, Ranges)

PlainNext == PlainInsert \/ PlainDelete

SpecPlain == Init /\ [][PlainNext]_vars

\* A client that edits at the two ends of the document and walks its history.
HistInsert ==
  InsertCall(MaxHistOps, {0, DocLength(tree, buffer)}, {<<LetterAt(ops)>>}, {NullMeta})

HistDelete == DeleteCall(MaxHistOps, {rg \in Ranges : rg = <<0, 1>>})

HistFormat == FormatCall(MaxHistOps, {rg \in Ranges : rg = <<0, 1>>}, FormatMetas)

HistStartChange == StartChangeCall(MaxHistOps)

HistEndChange == EndChangeCall(MaxHistOps)

HistUndo == UndoCall(MaxHistOps)

HistRedo == RedoCall(MaxHistOps)

HistNext ==
  \/ HistInsert
  \/ HistDelete
  \/ HistFormat
  \/ HistStartChange
  \/ HistEndChange
  \/ HistUndo
  \/ HistRedo

SpecHist == Init /\ [][HistNext]_vars

\* A caller of the bare list that also reads it: find(offset) from below 0
\* to above the size of the list.
ListFind ==
  /\ tree.root # SENTINEL
  /\ \E offset \in (-1)..(ListSize(tree) + 1) :
        last' = [op |-> "find", offset |-> offset, result |-> Find(tree, offset)]
  /\ UNCHANGED <<tree, ops>>
  /\ ListFrame

\* get(index) from below 1 to above the number of nodes, with nodeCnt,
\* firstNode and lastNode
ListGet ==
  /\ \E index \in (-1)..(Cardinality(tree.used) + 1) :
        last' = [op |-> "get", index |-> index, result |-> Get(tree, index),
                 nodeCnt |-> ListNodeCnt(tree), firstNode |-> FirstNode(tree),
                 lastNode |-> LastNode(tree)]
  /\ UNCHANGED <<tree, ops>>
  /\ ListFrame

ListReadNext ==
  \/ ListInsertBefore
  \/ ListInsertAfter
  \/ ListDeleteNode
  \/ ListFind
  \/ ListGet

SpecListRead == ListInit /\ [][ListReadNext]_vars

\* A client that types plain text and line feeds and then reads the document.
ReadInsert ==
  InsertCall(MaxReadOps, 0..DocLength(tree, buffer),
             {<<LetterAt(ops)>>, <<LetterAt(ops), LetterAt(ops)>>, <<LF>>}, {NullMeta})

\* What is remembered of a call that only reads: the document is as it was.
Asked(rec) ==
  /\ pc = "idle"
  /\ last' = rec
  /\ pc' = "asked"
  /\ UNCHANGED <<tree, buffer, undoStack, redoStack, changing, snaps, redoSnaps, plain, ops>>

\* getTextInRange(from, to), 0 <= from < to <= length of the document
ReadTextInRange ==
  \E from \in 0..DocLength(tree, buffer), to \in 0..DocLength(tree, buffer) :
     /\ from < to
     /\ Asked([op |-> "getTextInRange", from |-> from, to |-> to,
               result |-> GetTextInRange(tree, buffer, from, to),
               before |-> Now, treeBefore |-> tree, hist |-> last.hist])

\* getLine(lineNumber), from line 0 to one past the last line
ReadLine ==
  \E k \in 0..(GetLineCount(tree) + 1) :
     Asked([op |-> "getLine", lineNumber |-> k, lineCount |-> GetLineCount(tree),
            result |-> GetLine(tree, buffer, k),
            before |-> Now, treeBefore |-> tree, hist |-> last.hist])

ReadNext ==
  \/ ReadInsert
  \/ ReadTextInRange
  \/ ReadLine

SpecRead == Init /\ [][ReadNext]_vars

\* A client that types text and line feeds, with and without meta, erases,
\* and then reads every line both ways.
LinesInsert ==
  InsertCall(MaxLinesOps, 0..DocLength(tree, buffer),
             {<<LetterAt(ops)>>, <<LF>>}, InsertMetas)

LinesDelete == DeleteCall(MaxLinesOps, Ranges)

\* getLines(), with getLineCount() and getLine(k) for every line
ReadLines ==
  Asked([op |-> "getLines", lineCount |-> GetLineCount(tree),
         result |-> GetLines(tree, buffer),
         line |-> [k \in 1..GetLineCount(tree) |-> GetLine(tree, buffer, k)],
         before |-> Now, treeBefore |-> tree, hist |-> last.hist])

LinesNext ==
  \/ LinesInsert
  \/ LinesDelete
  \/ ReadLines

SpecLines == Init /\ [][LinesNext]_vars

\* A client that also names ranges that reach past the end of the document
\* and empty ranges.
EdgeRanges ==
  (0..(DocLength(tree, buffer) + 1)) \X (0..(DocLength(tree, buffer) + 1))

EdgeInsert ==
  InsertCall(MaxEdgeOps, {0, DocLength(tree, buffer)},
             {<<LetterAt(ops)>>, <<LetterAt(ops), LetterAt(ops)>>, <<LF>>}, InsertMetas)

EdgeDelete == DeleteCall(MaxEdgeOps, EdgeRanges)

EdgeFormat == FormatCall(MaxEdgeOps, EdgeRanges, FormatMetas)

\* formatText(offset, length, meta) and formatNonText(offset, length, meta)
EdgeFormatText ==
  /\ Ready(MaxEdgeOps)
  /\ \E rg \in EdgeRanges, meta \in FormatMetas :
       \E r \in {PublicFormatText(Current, rg[1], rg[2], meta)} :
          \/ /\ Returned(r.E)
             /\ last' = Call("formatText", rg[1], rg[2], <<>>, meta, r.diffs, Now, <<>>, <<>>)
             /\ plain' = FALSE
             /\ Mutated("format", rg[1] - 1)
          \/ Hangs(r.E, "formatText")

EdgeFormatNonText ==
  /\ Ready(MaxEdgeOps)
  /\ \E rg \in EdgeRanges, meta \in FormatMetas :
       \E r \in {PublicFormatNonText(Current, rg[1], rg[2], meta)} :
          \/ /\ Returned(r.E)
             /\ last' = Call("formatNonText", rg[1], rg[2], <<>>, meta, r.diffs, Now, <<>>, <<>>)
             /\ plain' = FALSE
             /\ Mutated("format", rg[1] - 1)
          \/ Hangs(r.E, "formatNonText")

\* The line numbers a caller may name: from 0 to one past the last line.
EdgeLines == 0..(GetLineCount(tree) + 1)

\* What a line helper leaves behind: its line number and the line count
\* before it are remembered with the call.
LineCalled(op, lineNumber, meta, r) ==
  \/ /\ Returned(r.E)
     /\ last' = Call(op, 0, 0, <<>>, meta, r.diffs, Now, <<>>, <<>>)
                  @@ [lineNumber |-> lineNumber, lineCount |-> GetLineCount(tree),
                      treeBefore |-> tree]
     /\ plain' = FALSE
     /\ IF r.E.undoStack = undoStack
        THEN UNCHANGED <<snaps, redoSnaps>>
        ELSE Mutated(op, lineNumber)
  \/ Hangs(r.E, op)

EdgeDeleteLine ==
  /\ Ready(MaxEdgeOps)
  /\ \E k \in EdgeLines : LineCalled("deleteLine", k, NullMeta, DeleteLine(Current, k))

EdgeFormatLine ==
  /\ Ready(MaxEdgeOps)
  /\ \E k \in EdgeLines, meta \in FormatMetas :
        LineCalled("formatLine", k, meta, FormatLine(Current, k, meta))

EdgeFormatInLine ==
  /\ Ready(MaxEdgeOps)
  /\ \E k \in EdgeLines, meta \in FormatMetas :
        LineCalled("formatInLine", k, meta, FormatInLine(Current, k, meta))

EdgeFormatTextInLine ==
  /\ Ready(MaxEdgeOps)
  /\ \E k \in EdgeLines, meta \in FormatMetas :
        LineCalled("formatTextInLine", k, meta, FormatTextInLine(Current, k, meta))

EdgeFormatNonTextInLine ==
  /\ Ready(MaxEdgeOps)
  /\ \E k \in EdgeLines, meta \in FormatMetas :
        LineCalled("formatNonTextInLine", k, meta, FormatNonTextInLine(Current, k, meta))

EdgeNext ==
  \/ EdgeInsert
  \/ EdgeDelete
  \/ EdgeFormat
  \/ EdgeFormatText
  \/ EdgeFormatNonText
  \/ EdgeDeleteLine
  \/ EdgeFormatLine
  \/ EdgeFormatInLine
  \/ EdgeFormatTextInLine
  \/ EdgeFormatNonTextInLine

SpecEdge == Init /\ [][EdgeNext]_vars

\* ------------------------------------------ editing and formatting only

\* insert(offset, text, meta) of two letters or of a line feed
FmtInsert ==
  InsertCall(MaxFormatOps, 0..DocLength(tree, buffer),
             {<<LetterAt(ops), LetterAt(ops)>>, <<LF>>}, InsertMetas)

FmtDelete == DeleteCall(MaxFormatOps, Ranges)

FmtFormat == FormatCall(MaxFormatOps, Ranges, FormatMetas)

FormatNext == FmtInsert \/ FmtDelete \/ FmtFormat

SpecFormat == Init /\ [][FormatNext]_vars

\* --------------------------------------------------- change(callback)

\* The mutations a callback makes: a letter typed at the start, or the first
\* character erased.
CallbackMutations ==
  {[op |-> "insert", offset |-> 0, length |-> 0, text |-> <<LetterAt(ops)>>],
   [op |-> "delete", offset |-> 0, length |-> 1, text |-> <<>>]}

\* The callbacks: up to MaxCallbackLen mutations, then a return or a throw.
Callbacks ==
  {[calls |-> c, throws |-> t] :
     c \in UNION {[1..n -> CallbackMutations] : n \in 0..MaxCallbackLen},
     t \in BOOLEAN}

\* change(callback)
ChgChange ==
  /\ Ready(MaxChangeOps)
  /\ ~changing
  /\ \E callback \in Callbacks :
       \E E \in {PublicChange(Current, callback)},
          op \in {IF callback.throws THEN "changeThrown" ELSE "change"} :
          \/ /\ Returned(E)
             /\ last' = Call(op, 0, 0, <<>>, NullMeta, <<>>, Now, <<>>, <<>>)
                          @@ [calls |-> callback.calls, throws |-> callback.throws]
             /\ snaps' = Append(snaps,
                                [snap |-> Now,
                                 calls |-> [i \in 1..Len(callback.calls) |->
                                              [op |-> callback.calls[i].op,
                                               offset |-> callback.calls[i].offset]]])
             /\ redoSnaps' = IF callback.calls = <<>> THEN redoSnaps ELSE <<>>
             /\ plain' = plain
          \/ Hangs(E, op)

ChgInsert ==
  InsertCall(MaxChangeOps, {0, DocLength(tree, buffer)}, {<<LetterAt(ops)>>}, {NullMeta})

ChgUndo == UndoCall(MaxChangeOps)

ChangeNext == ChgChange \/ ChgInsert \/ ChgUndo

SpecChange == Init /\ [][ChangeNext]_vars

\* ------------------------------------------------- typing and erasing

\* insert(offset, text, meta), the list and the buffer before it remembered
AppInsert ==
  /\ Ready(MaxAppendOps)
  /\ \E offset \in 0..DocLength(tree, buffer),
        text \in {<<LetterAt(ops)>>, <<LetterAt(ops), LetterAt(ops)>>, <<LF>>},
        meta \in InsertMetas :
       /\ \E r \in {PublicInsert(Current, offset, text, meta)} :
             /\ Returned(r.E)
             /\ last' = Call("insert", offset, 0, text, meta, r.diffs, Now, <<>>, <<>>)
                          @@ [treeBefore |-> tree, bufferBefore |-> buffer]
             /\ plain' = (plain /\ meta.null /\ text # <<>>)
             /\ Mutated("insert", offset)

AppDelete == DeleteCall(MaxAppendOps, Ranges)

AppendNext == AppInsert \/ AppDelete

SpecAppend == Init /\ [][AppendNext]_vars

\* --------------------------------------------------- mergeMeta alone

\* The meta objects: each key of KeyOrder absent or with a value.
MetaObjects ==
  {ObjMeta({<<KeyOrder[i], f[i]>> : i \in {j \in 1..Len(KeyOrder) : f[j] > 0}}) :
     f \in [1..Len(KeyOrder) -> 0..MaxMetaValue]}

\* A target and a source are at hand; nothing else exists.
MetaInit ==
  /\ tree = EmptyTree
  /\ buffer = <<>>
  /\ undoStack = <<>>
  /\ redoStack = <<>>
  /\ changing = FALSE
  /\ pc = "idle"
  /\ snaps = <<>>
  /\ redoSnaps = <<>>
  /\ plain = TRUE
  /\ ops = 0
  /\ \E target \in MetaObjects, source \in MetaObjects :
        last = NoCall @@ [target |-> target, source |-> source]

\* mergeMeta(target, source)
MetaMerge ==
  /\ pc = "idle"
  /\ last.op = "none"
  /\ last' = [op |-> "mergeMeta", hist |-> <<"mergeMeta">>,
              target |-> last.target, source |-> last.source,
              result |-> MergeMeta(last.target, last.source)]
  /\ pc' = "asked"
  /\ UNCHANGED <<tree, buffer, undoStack, redoStack, changing, snaps, redoSnaps, plain, ops>>

MetaNext == MetaMerge

SpecMeta == MetaInit /\ [][MetaNext]_vars

\* ---------------------------------------------------- the two splitNode

\* What is remembered of a split: the node, where it was cut, the two nodes
\* returned, and the list before. Nothing is called after a split.
Split(op, node, reminder, res) ==
  /\ pc = "idle"
  /\ ~res.tree.full
  /\ tree' = res.tree
  /\ pc' = "split"
  /\ last' = [op |-> op, node |-> node, reminder |-> reminder,
              leftNode |-> res.leftNode, rightNode |-> res.rightNode,
              before |-> Now, treeBefore |-> tree, hist |-> last.hist]
  /\ UNCHANGED <<buffer, undoStack, redoStack, changing, snaps, redoSnaps, plain, ops>>

\* The nodes that can be split and the places to cut: 0 < reminder < length
SplitPlaces ==
  {c \in tree.used \X (1..MaxLen) : c[2] < tree.piece[c[1]].length}

\* PieceTree.splitNode(node, reminder)
TreeSplitNode ==
  \E c \in SplitPlaces : Split("splitNode", c[1], c[2], SplitNode(tree, buffer, c[1], c[2]))

\* PieceNodeList.splitNode(pieceNode, offset)
ListSplit ==
  \E c \in SplitPlaces : Split("listSplitNode", c[1], c[2], ListSplitNode(tree, c[1], c[2]))

\* PieceNodeList.splitNode(pieceNode, offset, true) in a paragraph that holds
\* the whole list
ListSplitStructural ==
  /\ pc = "idle"
  /\ \E c \in SplitPlaces, above \in BOOLEAN :
       \E r \in {ListSplitNodeStructural(tree, c[1], c[2], above)} :
          /\ ~r.tree.full
          /\ tree' = r.tree
          /\ pc' = IF r.hung THEN "hung" ELSE "split"
          /\ last' = [op |-> "splitNodeStructural", node |-> c[1], reminder |-> c[2],
                      sibling |-> r.sibling, moved |-> r.moved,
                      before |-> Now, treeBefore |-> tree, hist |-> last.hist]
  /\ UNCHANGED <<buffer, undoStack, redoStack, changing, snaps, redoSnaps, plain, ops>>

StructuralNext ==
  \/ ReadInsert
  \/ ListSplitStructural

SpecStructural == Init /\ [][StructuralNext]_vars

SplitNext ==
  \/ ReadInsert
  \/ TreeSplitNode
  \/ ListSplit

SpecSplit == Init /\ [][SplitNext]_vars

\* ------------------------------------------------------------ claims

\* C1: after every public call (insert, delete, format, undo, redo), and so
\* after every insertBefore / insertAfter / deleteNode it made, the six
\* aggregates of every node equal the sums and counts of its two subtrees.
C1_AggregateIntegrity == pc = "idle" => AggregatesOK(tree)

\* C2: after any sequence of insertBefore, insertAfter and deleteNode the
\* root is black, no red node has a red child, and every path from the root
\* to the sentinel holds the same number of black nodes.
C2_RedBlackIntegrity == RedBlackOK(tree)

\* A deleteNode has just left a list of at least four nodes with two black
\* levels and a red node.
C2_Witness ==
  /\ last.op = "deleteNode"
  /\ Cardinality(tree.used) >= 4
  /\ BlackHeight(tree, tree.root) >= 3
  /\ \E n \in tree.used : tree.color[n] = RED

\* The string s with t inserted at offset o, and with n characters removed at o.
StrInsert(s, o, t) == SubSeq(s, 1, o) \o t \o SubSeq(s, o + 1, Len(s))

StrDelete(s, o, n) == SubSeq(s, 1, o) \o SubSeq(s, o + n + 1, Len(s))

\* C3: after plain-text inserts and deletes only, insert(offset, text) with
\* non-empty text and offset <= len(get_text()) yields
\* old[0..offset) + text + old[offset..); an offset below 0 counts as 0.
C3_InsertRefinesString ==
  (pc = "idle" /\ plain /\ last.op = "insert")
    => GetText(tree, buffer) = StrInsert(last.before.text, Max(last.offset, 0), last.text)

\* C4: after plain-text inserts and deletes only, delete(offset, length) with
\* the range inside the text yields old[0..offset) + old[offset+length..).
C4_DeleteRefinesString ==
  (pc = "idle" /\ plain /\ last.op = "delete")
    => GetText(tree, buffer) = StrDelete(last.before.text, last.offset, last.length)

\* The group undone or redone by the last call holds only changes of these types.
LastGroupOf(types) ==
  /\ last.group # <<>>
  /\ \A i \in 1..Len(last.group) : last.group[i].type \in types

\* C5: undo() of a group of inserts and deletes (with or without meta)
\* restores get_text() to its value before the group.
C5_UndoRestoresText ==
  (pc = "idle" /\ last.op = "undo" /\ LastGroupOf({"insert", "delete"}))
    => Now.text = last.expect.text

\* C6: redo() of an undone group restores get_text() to its value before the
\* undo, and what undo and redo do inside neither empties the redo stack nor
\* adds a group to the undo stack.
C6_RedoRestoresText ==
  /\ (pc = "idle" /\ last.op = "redo" /\ last.group # <<>>)
       => /\ Now.text = last.expect.text
          /\ Len(undoStack) = Len(last.undoBefore) + 1
          /\ Len(redoStack) = Len(last.redoBefore) - 1
  /\ (pc = "idle" /\ last.op = "undo" /\ last.group # <<>>)
       => /\ Len(undoStack) = Len(last.undoBefore) - 1
          /\ Len(redoStack) = Len(last.redoBefore) + 1

\* The entries of the meta of every position of the document, piece by piece.
RECURSIVE CharMetas(_, _)
CharMetas(pieces, i) ==
  IF i > Len(pieces) THEN <<>>
  ELSE [k \in 1..pieces[i].length |-> pieces[i].meta.kv] \o CharMetas(pieces, i + 1)

\* C7: undo() of a format leaves every position of the document with the
\* meta entries it carried before the format.
C7_UndoFormatRestoresMeta ==
  (pc = "idle" /\ last.op = "undo" /\ LastGroupOf({"format"}))
    => CharMetas(Now.pieces, 1) = CharMetas(last.expect.pieces, 1)

\* C8: undo() of a group restores get_pieces(): the same pieces in the same
\* order, each with the same text, length and meta as before the group.
C8_UndoRestoresPieces ==
  (pc = "idle" /\ last.op = "undo" /\ LastGroupOf({"insert", "delete", "format"}))
    => Now.pieces = last.expect.pieces

\* The calls so far end inside a bracket: the last startChange() or
\* endChange() among them is a startChange().
RECURSIVE InBracket(_, _)
InBracket(hist, i) ==
  IF i < 1 THEN FALSE
  ELSE IF hist[i] = "startChange" THEN TRUE
  ELSE IF hist[i] = "endChange" THEN FALSE
  ELSE InBracket(hist, i - 1)

\* Group i of the undo stack holds, in the order they were made, the changes
\* of the calls calls.
GroupHolds(group, calls) ==
  /\ Len(group) = Len(calls)
  /\ \A k \in 1..Len(calls) :
       /\ group[k].type = calls[k].op
       /\ group[k].startOffset = Internal(calls[k].offset)

Mutations == {"insert", "delete", "format"}

C10_MutationDiscardsRedo ==
  /\ (pc = "idle" /\ last.op \in Mutations) => redoStack = <<>>
  /\ (/\ pc = "idle"
      /\ last.op = "redo"
      /\ Len(last.hist) >= 3
      /\ last.hist[Len(last.hist) - 1] \in Mutations
      /\ \E j \in 1..(Len(last.hist) - 2) : last.hist[j] = "undo")
       => /\ Now = last.before
          /\ last.diffs = <<>>
          /\ undoStack = last.undoBefore
          /\ redoStack = <<>>

\* undo(), then an insert, then redo().
C10_Witness ==
  /\ pc = "idle"
  /\ last.op = "redo"
  /\ Len(last.hist) >= 3
  /\ last.hist[Len(last.hist) - 1] = "insert"
  /\ last.hist[Len(last.hist) - 2] = "undo"
  /\ last.redoBefore = <<>>

\* C11: on a text-only document getTextInRange(from, to) with
\* 0 <= from < to <= len(get_text()) returns get_text()[from..to) and leaves
\* the tree as it was.
C11_TextInRange ==
  (pc = "asked" /\ last.op = "getTextInRange")
    => /\ last.result = SubSeq(last.before.text, last.from + 1, last.to)
       /\ tree = last.treeBefore

\* The sums of the lengths and of the line feeds of the first k nodes of order.
RECURSIVE LengthOfFirst(_, _, _)
LengthOfFirst(T, order, k) ==
  IF k < 1 THEN 0 ELSE T.piece[order[k]].length + LengthOfFirst(T, order, k - 1)

RECURSIVE LineFeedsOfFirst(_, _, _)
LineFeedsOfFirst(T, order, k) ==
  IF k < 1 THEN 0 ELSE T.piece[order[k]].lineFeedCnt + LineFeedsOfFirst(T, order, k - 1)

\* C12: on a non-empty list with correct aggregates find(offset) returns the
\* leftmost node with reminder 0 and startOffset 0 for offset <= 0, the
\* rightmost node with reminder equal to its length for offset >= size, and
\* otherwise the node holding the offset, with startOffset and
\* startLineFeedCnt the sums over the nodes before it and
\* 0 <= reminder = offset - startOffset < its length.
C12_Find ==
  (last.op = "find" /\ tree.root # SENTINEL /\ AggregatesOK(tree)) =>
    LET order == InOrder(tree, tree.root)
        r == last.result
    IN IF last.offset <= 0
       THEN r.node = order[1] /\ r.reminder = 0 /\ r.startOffset = 0
       ELSE IF last.offset >= LengthOfFirst(tree, order, Len(order))
       THEN /\ r.node = order[Len(order)]
            /\ r.reminder = tree.piece[r.node].length
       ELSE \E i \in 1..Len(order) :
               /\ r.node = order[i]
               /\ r.startOffset = LengthOfFirst(tree, order, i - 1)
               /\ r.startLineFeedCnt = LineFeedsOfFirst(tree, order, i - 1)
               /\ r.reminder = last.offset - r.startOffset
               /\ 0 <= r.reminder
               /\ r.reminder < tree.piece[r.node].length

\* find has answered for an offset strictly inside the third of at least four
\* nodes, past line feeds.
C12_Witness ==
  /\ last.op = "find"
  /\ Cardinality(tree.used) >= 4
  /\ last.result.node = InOrder(tree, tree.root)[3]
  /\ last.result.reminder > 0
  /\ last.result.startLineFeedCnt > 0

\* C13: get(index) returns the node of in-order rank index for index in
\* 1..n and the sentinel for every other index; nodeCnt is n (0 on the empty
\* list), firstNode is the leftmost and lastNode the rightmost node.
C13_Get ==
  (last.op = "get" /\ AggregatesOK(tree)) =>
    LET order == InOrder(tree, tree.root)
    IN /\ last.nodeCnt = Len(order)
       /\ last.result = IF last.index \in 1..Len(order) THEN order[last.index]
                        ELSE SENTINEL
       /\ last.firstNode = Lefest(tree, tree.root)
       /\ last.lastNode = Rightest(tree, tree.root)

\* C14: delete(offset, length) returns for every offset >= 0 and length >= 0,
\* also when the range reaches past the end of the document or starts at or
\* past its end, and when the document is empty; so does deleteLine(k).
C14_DeleteTerminates == ~(pc = "hung" /\ last.op \in {"delete", "deleteLine"})

\* C15: format, formatText and formatNonText return for every offset and
\* length >= 0, also when the range reaches past the end of the document or
\* starts at its end; so do formatInLine, formatTextInLine and
\* formatNonTextInLine.
C15_FormatTerminates ==
  ~(pc = "hung" /\ last.op \in {"format", "formatText", "formatNonText", "formatInLine",
                                "formatTextInLine", "formatNonTextInLine"})

LineHelpers ==
  {"deleteLine", "formatLine", "formatInLine", "formatTextInLine", "formatNonTextInLine"}

\* C16: deleteLine, formatLine, formatInLine, formatTextInLine and
\* formatNonTextInLine return no diffs and change no piece and no meta when
\* lineNumber < 1 or lineNumber > get_line_count().
C16_LineOutOfRange ==
  (/\ pc = "idle"
   /\ last.op \in LineHelpers
   /\ (last.lineNumber < 1 \/ last.lineNumber > last.lineCount))
    => /\ last.diffs = <<>>
       /\ tree.piece = last.treeBefore.piece
       /\ Now = last.before

\* The pieces of pieces that lie after the k-th line feed piece and before
\* the next one, the leading line feed counted as the first (it is not in
\* pieces).
RECURSIVE PiecesOfLine(_, _, _)
PiecesOfLine(pieces, i, k) ==
  IF i > Len(pieces) THEN <<>>
  ELSE IF pieces[i].text = <<LF>>
  THEN IF k <= 1 THEN <<>> ELSE PiecesOfLine(pieces, i + 1, k - 1)
  ELSE IF k <= 1 THEN <<pieces[i]>> \o PiecesOfLine(pieces, i + 1, k)
  ELSE PiecesOfLine(pieces, i + 1, k)

\* C17: getLine(k) with k > get_line_count() returns the empty single-piece
\* line whatever the last line holds, and with 1 <= k <= get_line_count()
\* the pieces between the k-th line feed piece and the next one (the empty
\* piece alone when there are none).
C17_GetLine ==
  (pc = "asked" /\ last.op = "getLine" /\ last.lineNumber >= 1) =>
    last.result.pieces =
      IF last.lineNumber > last.lineCount
           \/ PiecesOfLine(last.before.pieces, 1, last.lineNumber) = <<>>
      THEN <<EmptyLinePiece>>
      ELSE PiecesOfLine(last.before.pieces, 1, last.lineNumber)

\* The sentinel as it was constructed: black, no aggregates, its links on
\* itself and its piece empty.
SentinelUntouched(T) ==
  /\ T.color[SENTINEL] = BLACK
  /\ T.parent[SENTINEL] = SENTINEL
  /\ T.left[SENTINEL] = SENTINEL
  /\ T.right[SENTINEL] = SENTINEL
  /\ T.leftSize[SENTINEL] = 0 /\ T.rightSize[SENTINEL] = 0
  /\ T.leftLineFeedCnt[SENTINEL] = 0 /\ T.rightLineFeedCnt[SENTINEL] = 0
  /\ T.leftNodeCnt[SENTINEL] = 0 /\ T.rightNodeCnt[SENTINEL] = 0
  /\ T.piece[SENTINEL] = SentinelPiece

\* C18: the shared sentinel is never mutated: after every insertBefore,
\* insertAfter and deleteNode it is black, has zero aggregates, and its
\* parent, left and right links and its piece are those of construction.
C18_SentinelNeverMutated == SentinelUntouched(tree)

\* The first node in order holds the line feed piece of construction: the
\* first character of the first buffer, a line feed.
LeadingLineFeedFirst(T, buf) ==
  /\ IsNotNil(T.root)
  /\ LET piece == T.piece[Lefest(T, T.root)]
     IN /\ piece.bufferIndex = 0 /\ piece.start = 0
        /\ piece.length = 1 /\ piece.lineFeedCnt = 1
        /\ GetTextInPiece(buf, piece) = <<LF>>

\* C19: after any sequence of public insert, delete, format, undo and redo
\* calls that returned, the first piece in order is the leading line feed
\* piece of construction, length 1 and lineFeedCnt 1: it is not removed, not
\* moved and nothing is inserted before it.
C19_LeadingLineFeedStays == pc = "idle" => LeadingLineFeedFirst(tree, buffer)

\* Where n stands in order.
PlaceIn(order, n) == CHOOSE i \in 1..Len(order) : order[i] = n

\* The split law for the split remembered in last: the two nodes returned
\* stand where the node stood, left before right, all others as before; the
\* left piece is the first reminder characters and the right piece the rest,
\* each with the line feeds of its own text and the meta of the node; text,
\* size and number of line feeds of the list are those of before.
SplitLaw ==
  LET T0 == last.treeBefore
      before == InOrder(T0, T0.root)
      i == PlaceIn(before, last.node)
      p == T0.piece[last.node]
      l == tree.piece[last.leftNode]
      r == tree.piece[last.rightNode]
  IN /\ InOrder(tree, tree.root)
          = SubSeq(before, 1, i - 1) \o <<last.leftNode, last.rightNode>>
              \o SubSeq(before, i + 1, Len(before))
     /\ l.bufferIndex = p.bufferIndex /\ l.start = p.start
     /\ l.length = last.reminder
     /\ r.bufferIndex = p.bufferIndex /\ r.start = p.start + last.reminder
     /\ r.length = p.length - last.reminder
     /\ l.lineFeedCnt = ComputeLineFeedCnt(GetTextInPiece(buffer, l))
     /\ r.lineFeedCnt = ComputeLineFeedCnt(GetTextInPiece(buffer, r))
     /\ l.meta = p.meta /\ r.meta = p.meta
     /\ GetText(tree, buffer) = last.before.text
     /\ ListSize(tree) = ListSize(T0)
     /\ ListLineFeedCnt(tree) = ListLineFeedCnt(T0)

\* C20: splitting a node at a remainder inside its piece, by
\* PieceTree.splitNode or by PieceNodeList.splitNode, yields two adjacent
\* nodes holding the two slices, each with its own line feed count and the
\* meta, and leaves the text, the size, the line feed count and the order of
\* the other nodes as they were.
C20_SplitLaw == pc = "split" => SplitLaw

\* The entries of kv with those of meta written over them.
MergedEntries(kv, meta) ==
  {e \in kv : ~HasKey(meta.kv, e[1])} \cup meta.kv

\* The number of lines of a text: one more than its line feeds.
LinesOf(text) == ComputeLineFeedCnt(text) + 1

\* C21: format(offset, length, meta) with the range inside the document
\* leaves the text, the length and the number of lines as they were; every
\* position of the range carries its previous meta merged with meta, every
\* position outside carries its previous meta.
C21_FormatFrame ==
  (pc = "idle" /\ last.op = "format") =>
    LET was == CharMetas(last.before.pieces, 1)
        is == CharMetas(Now.pieces, 1)
    IN /\ Now.text = last.before.text
       /\ Len(is) = Len(was)
       /\ GetLineCount(tree) = LinesOf(last.before.text)
       /\ \A k \in 1..Len(was) :
            is[k] = IF k > last.offset /\ k <= last.offset + last.length
                    THEN MergedEntries(was[k], last.meta)
                    ELSE was[k]

\* The call before the last one.
PreviousOp == IF Len(last.hist) >= 2 THEN last.hist[Len(last.hist) - 1] ELSE "none"

\* C22: when the callback handed to change() throws after k mutations,
\* change() returns, the group is closed and holds those k mutations; one
\* undo() then brings the text back to what it was before change(), and a
\* mutation made after change() forms a group of its own.
C22_ThrowingCallback ==
  /\ (pc = "idle" /\ last.op = "changeThrown") =>
       /\ ~changing
       /\ Len(undoStack) = Len(last.undoBefore) + 1
       /\ SubSeq(undoStack, 1, Len(last.undoBefore)) = last.undoBefore
       /\ GroupHolds(undoStack[Len(undoStack)], last.calls)
  /\ (pc = "idle" /\ last.op = "undo" /\ PreviousOp = "changeThrown") =>
       /\ Len(last.applied) = Len(last.group)
       /\ undoStack = SubSeq(last.undoBefore, 1, Len(last.undoBefore) - 1)
       /\ Now.text = last.expect.text
  /\ (pc = "idle" /\ last.op \in Mutations /\ PreviousOp = "changeThrown") =>
       /\ Len(undoStack) = Len(last.undoBefore) + 1
       /\ SubSeq(undoStack, 1, Len(last.undoBefore)) = last.undoBefore
       /\ Len(undoStack[Len(undoStack)]) = 1

\* A callback threw after two mutations and one undo() took both back.
C22_Witness ==
  /\ pc = "idle" /\ last.op = "undo" /\ PreviousOp = "changeThrown"
  /\ Len(last.group) = 2
  /\ Now.text # last.before.text

\* order with n put at place i.
InsertedAt(order, i, n) ==
  SubSeq(order, 1, i - 1) \o <<n>> \o SubSeq(order, i, Len(order))

EndingAt(T, order, offset) ==
  {i \in 1..Len(order) : LengthOfFirst(T, order, i) = offset}

\* C24: an insert of text without line feed and without meta just after a
\* piece of buffer 0 that ends where buffer 0 ends and holds no line feed
\* makes that piece longer by the text and creates no node; every other
\* insert creates a node.
C24_ContinuousAppend ==
  (pc = "idle" /\ last.op = "insert" /\ "treeBefore" \in DOMAIN last) =>
    LET T0 == last.treeBefore
        order == InOrder(T0, T0.root)
        ends == EndingAt(T0, order, last.offset + 1)
        extends ==
          /\ last.text # <<>> /\ ComputeLineFeedCnt(last.text) = 0 /\ last.meta.null
          /\ \E i \in ends :
               /\ i = Len(order) \/ T0.piece[order[i + 1]].length > 0
               /\ T0.piece[order[i]].bufferIndex = 0
               /\ T0.piece[order[i]].start + T0.piece[order[i]].length
                    = Len(last.bufferBefore)
               /\ T0.piece[order[i]].lineFeedCnt = 0
    IN IF extends
       THEN /\ tree.used = T0.used
            /\ \E i \in ends :
                 tree.piece = [T0.piece EXCEPT ![order[i]].length = @ + Len(last.text)]
       ELSE Cardinality(tree.used) > Cardinality(T0.used)

PiecesInBuffer(T, buf) ==
  \A n \in T.used :
    T.piece[n].bufferIndex >= 0 =>
      /\ T.piece[n].bufferIndex = 0
      /\ 0 <= T.piece[n].start
      /\ 0 <= T.piece[n].length
      /\ T.piece[n].start + T.piece[n].length <= Len(buf)

\* C26: after any sequence of public mutations, undo and redo, every piece
\* that names a buffer lies inside it, 0 <= start and start + length <=
\* len(buffer); buffer 0 only grows at its end, what it held stays a prefix
\* of what it holds.
C26_BuffersAppendOnly ==
  /\ [](pc = "idle" => PiecesInBuffer(tree, buffer))
  /\ [][SubSeq(buffer', 1, Len(buffer)) = buffer]_vars

\* The character at every position of the document, piece by piece; a piece
\* without text stands for one position that holds no character.
RECURSIVE CharsOf(_, _)
CharsOf(pieces, i) ==
  IF i > Len(pieces) THEN <<>>
  ELSE [k \in 1..pieces[i].length |->
          IF k <= Len(pieces[i].text) THEN pieces[i].text[k] ELSE ""]
         \o CharsOf(pieces, i + 1)

\* The 1-based number of the line that holds position offset.
LineAt(pieces, offset) ==
  1 + ComputeLineFeedCnt(SubSeq(CharsOf(pieces, 1), 1, offset))

\* C27: insert(offset, text) returns 1 + n diffs, n the number of line feeds
\* of text: {replace, L} with L the number of the line of the insertion
\* point, then {insert, L + i} for i = 1..n in this order, wherever in a
\* piece the insertion point lies.
C27_InsertDiffs ==
  (pc = "idle" /\ last.op = "insert") =>
    LET L == LineAt(last.before.pieces, last.offset)
    IN last.diffs = <<Diff("replace", L)>>
                      \o [i \in 1..ComputeLineFeedCnt(last.text) |-> Diff("insert", L + i)]

\* C28: PieceNodeList.splitNode(node, offset, true) in a STRUCTURAL parent
\* returns, a sibling of the parent has been created, and the nodes from the
\* split point on, the right half first, have been moved into it.
C28_StructuralSplit ==
  last.op = "splitNodeStructural" =>
    /\ pc # "hung"
    /\ last.sibling
    /\ LET before == InOrder(last.treeBefore, last.treeBefore.root)
       IN last.moved = SubSeq(before, PlaceIn(before, last.node), Len(before))

\* The line feeds of every piece of the list are counted right, and a piece
\* that holds a line feed is the single character "\n"; a piece without
\* text holds none.
LineFeedsCounted(T, buf) ==
  \A n \in T.used :
    LET p == T.piece[n]
    IN /\ p.bufferIndex >= 0 =>
            p.lineFeedCnt = ComputeLineFeedCnt(GetTextInPiece(buf, p))
       /\ p.bufferIndex < 0 => p.lineFeedCnt = 0
       /\ p.lineFeedCnt # 0 =>
            /\ p.length = 1 /\ p.lineFeedCnt = 1
            /\ GetTextInPiece(buf, p) = <<LF>>

\* C29: after any sequence of public insert, delete, format, undo and redo
\* calls, every piece's lineFeedCnt is the number of line feeds of its
\* slice, a piece that holds a line feed is the single character "\n", and
\* text pieces and pieces without text have lineFeedCnt 0.
C29_LineFeedPieces == pc = "idle" => LineFeedsCounted(tree, buffer)

\* Every position of the list, the leading line feed included: whether it
\* holds a line feed, and the entries of the meta it carries.
RECURSIVE Positions(_, _, _, _)
Positions(T, buf, order, i) ==
  IF i > Len(order) THEN <<>>
  ELSE LET piece == T.piece[order[i]]
           text == GetTextInPiece(buf, piece)
       IN [k \in 1..piece.length |->
             [lf |-> k <= Len(text) /\ text[k] = LF, kv |-> piece.meta.kv]]
          \o Positions(T, buf, order, i + 1)

\* The line of position j: the number of line feeds up to it.
LineOfPosition(positions, j) ==
  Cardinality({i \in 1..j : positions[i].lf})

\* C30: formatInLine(k, meta) with 1 <= k <= get_line_count() merges meta
\* into the content pieces of line k and into nothing else: every line feed
\* piece, the one of line k + 1 included, and every piece of another line
\* keeps its meta.
C30_FormatInLine ==
  (/\ pc = "idle"
   /\ last.op = "formatInLine"
   /\ last.lineNumber >= 1
   /\ last.lineNumber <= last.lineCount)
    => LET before == last.treeBefore
           was == Positions(before, buffer, InOrder(before, before.root), 1)
           is == Positions(tree, buffer, InOrder(tree, tree.root), 1)
       IN /\ Len(is) = Len(was)
          /\ \A j \in 1..Len(was) :
               /\ is[j].lf = was[j].lf
               /\ is[j].kv =
                    IF ~was[j].lf /\ LineOfPosition(was, j) = last.lineNumber
                    THEN MergedEntries(was[j].kv, last.meta)
                    ELSE was[j].kv

\* C31: after any sequence of mutations getLines() has getLineCount()
\* entries and its k-th entry is getLine(k), with the same line meta and
\* the same pieces, empty lines included.
C31_LinesAgree ==
  (pc = "asked" /\ last.op = "getLines") =>
    /\ Len(last.result) = last.lineCount
    /\ \A k \in 1..last.lineCount : last.result[k] = last.line[k]

\* C32: on a tree constructed without initial lines, undo() called when the
\* undo stack holds no group of the user (none was made, or each was
\* undone) returns, returns no diffs, and leaves the pieces, the text and
\* the number of lines as they were.
C32_SeedNotUndoable ==
  /\ (pc = "hung" /\ last.op = "undo") => Len(undoStack) > 1
  /\ (pc = "idle" /\ last.op = "undo" /\ Len(last.undoBefore) <= 1)
       => /\ last.diffs = <<>>
          /\ Now = last.before
          /\ GetLineCount(tree) = LinesOf(last.before.text)

====
